---- MODULE Spec2Model ----
(***************************************************************************)
(* A model of the storefront's repository layer (storage.ts: MemStorage    *)
(* and DatabaseStorage), its authentication service (auth.ts) and the      *)
(* route handlers (routes.ts) that sit on top of them.                     *)
(*                                                                         *)
(* Every table is a function from the key under which a row is stored to   *)
(* the row.  Keys are handed out by increasing counters, so ascending key  *)
(* order is insertion order (Map iteration order in MemStorage).           *)
(* An optional value (T | undefined) is a sequence: <<>> or <<value>>.     *)
(***************************************************************************)
EXTENDS Integers, Sequences, FiniteSets, TLC

VARIABLES
    backend,              \* "mem" (MemStorage) or "db" (DatabaseStorage)
    users,                \* id -> [id, username, password, role]
    products,             \* key -> [id, supplierId, stock, isActive]
    orders,               \* key -> [id, customerId, status, paymentStatus]
    orderItems,           \* id -> [id, orderId, productId, quantity]
    carts,                \* id -> [id, userId, items]
    supplierInventories,  \* id -> [id, supplierId, productId, availableStock]
    reviews,              \* id -> [id, productId, customerId, rating]
    counters,             \* the id counters (the serial columns in the database)
    session,              \* client -> id of the logged-in user, 0 for none
    reg,                  \* client -> the POST /api/register request in flight
    pc,                   \* the repository call in progress (deleteOrder's two steps)
    call,                 \* the last repository call made directly: name, arguments, result
    req,                  \* the last HTTP request received
    resp                  \* the last HTTP response sent

tables == <<users, products, orders, orderItems, carts, supplierInventories, reviews, counters>>
vars == <<backend, users, products, orders, orderItems, carts, supplierInventories,
          reviews, counters, session, reg, pc, call, req, resp>>

----------------------------------------------------------------------------
(* Bounds of the model. *)

MaxUsers == 5          \* highest user id handed out (three demo users + registrations)
MaxProducts == 5       \* highest product id handed out (four demo products + created)
MaxOrders == 2         \* highest order id handed out by direct createOrder calls
MaxApiOrders == 1      \* highest order id handed out by POST /api/orders
MaxOrderItems == 3     \* highest order item id handed out by direct addOrderItem calls
MaxInventories == 7    \* highest inventory row id handed out
MaxViewUsers == 4      \* highest user id handed out where the order views are read
MaxViewItems == 2      \* highest order item id handed out where the order views are read
MaxCarts == 2          \* highest cart id a call may start from
MaxReviews == 7        \* highest review id handed out

----------------------------------------------------------------------------
(* Generic helpers on tables, records and optional values. *)

Put(t, k, r) == [x \in DOMAIN t \cup {k} |-> IF x = k THEN r ELSE t[x]]

Del(t, k) == [x \in DOMAIN t \ {k} |-> t[x]]

DelAll(t, ks) == [x \in DOMAIN t \ ks |-> t[x]]

\* { ...a, ...b }
Spread(a, b) == [f \in DOMAIN a \cup DOMAIN b |-> IF f \in DOMAIN b THEN b[f] ELSE a[f]]

\* const { f, ...rest } = r
Without(r, f) == [k \in DOMAIN r \ {f} |-> r[k]]

Min(s) == CHOOSE x \in s : \A y \in s : x <= y

Max2(a, b) == IF a >= b THEN a ELSE b

\* Array.from(map.values()).find(pred): the first row in insertion order.
FirstKey(ks) == IF ks = {} THEN <<>> ELSE <<Min(ks)>>

\* the keys of a table in iteration order
RECURSIVE KeySeq(_)
KeySeq(ks) == IF ks = {} THEN <<>> ELSE <<Min(ks)>> \o KeySeq(ks \ {Min(ks)})

----------------------------------------------------------------------------
(* The repository as a value: every storage method maps a store to          *)
(* [S |-> the store afterwards, ret |-> what the method returns].           *)

Store ==
    [users |-> users, products |-> products, orders |-> orders,
     orderItems |-> orderItems, carts |-> carts,
     supplierInventories |-> supplierInventories, reviews |-> reviews,
     counters |-> counters]

SetStore(S) ==
    /\ users' = S.users
    /\ products' = S.products
    /\ orders' = S.orders
    /\ orderItems' = S.orderItems
    /\ carts' = S.carts
    /\ supplierInventories' = S.supplierInventories
    /\ reviews' = S.reviews
    /\ counters' = S.counters

----------------------------------------------------------------------------
(* User management (identical in both implementations: a point lookup, a   *)
(* scan by username, an insert that checks nothing).                       *)

getUser(S, id) == IF id \in DOMAIN S.users THEN <<S.users[id]>> ELSE <<>>

getUserByUsername(S, username) ==
    LET k == FirstKey({x \in DOMAIN S.users : S.users[x].username = username})
    IN  IF k = <<>> THEN <<>> ELSE <<S.users[k[1]]>>

getUsersByRole(S, role) ==
    LET ks == KeySeq({x \in DOMAIN S.users : S.users[x].role = role})
    IN  [i \in 1..Len(ks) |-> S.users[ks[i]]]

createUser(S, insertUser) ==
    LET id == S.counters.user
        user == Spread(insertUser, [id |-> id])
    IN  [S |-> [S EXCEPT !.users = Put(@, id, user), !.counters.user = id + 1],
         ret |-> user]

----------------------------------------------------------------------------
(* Product management. *)

\* a rejected promise: the method throws
Throws == <<[error |-> TRUE]>>

\* r.f where the property may be missing: <<>> for undefined
Field(r, f) == IF f \in DOMAIN r THEN <<r[f]>> ELSE <<>>

\* the rows of a table in insertion order
Rows(t) == [i \in 1..Cardinality(DOMAIN t) |-> t[KeySeq(DOMAIN t)[i]]]

\* a releaseDate of null
NoDate == "null"

\* what DatabaseStorage adds to every product row it reads: the table has
\* no coming_soon and no release_date column
DbProductDefaults == [comingSoon |-> FALSE, releaseDate |-> NoDate]

MemGetProduct(S, id) == IF id \in DOMAIN S.products THEN <<S.products[id]>> ELSE <<>>

DbGetProduct(S, id) ==
    IF id \in DOMAIN S.products THEN <<Spread(S.products[id], DbProductDefaults)>> ELSE <<>>

getProduct(S, id) == IF backend = "mem" THEN MemGetProduct(S, id) ELSE DbGetProduct(S, id)

MemCreateProduct(S, product) ==
    LET id == S.counters.product
        newProduct == Spread(product, [id |-> id])
    IN  [S |-> [S EXCEPT !.products = Put(@, id, newProduct), !.counters.product = id + 1],
         ret |-> newProduct]

\* comingSoon and releaseDate are taken off before the insert and put back
\* on the returned object only
DbCreateProduct(S, product) ==
    LET id == S.counters.product
        dbProduct == Without(Without(product, "comingSoon"), "releaseDate")
        newProduct == Spread(dbProduct, [id |-> id])
        comingSoon == IF "comingSoon" \in DOMAIN product THEN product.comingSoon ELSE FALSE
        releaseDate == IF "releaseDate" \in DOMAIN product THEN product.releaseDate ELSE NoDate
    IN  [S |-> [S EXCEPT !.products = Put(@, id, newProduct), !.counters.product = id + 1],
         ret |-> Spread(newProduct, [comingSoon |-> comingSoon, releaseDate |-> releaseDate])]

createProduct(S, product) ==
    IF backend = "mem" THEN MemCreateProduct(S, product) ELSE DbCreateProduct(S, product)

\* the filters applied one after the other; a falsy category ("") or
\* supplierId (0) is skipped like a missing one
MemGetProducts(S, filters) ==
    LET ByCategory(q) == Field(q, "category") = <<filters.category>>
        BySupplier(q) == Field(q, "supplierId") = <<filters.supplierId>>
        ByActive(q) == Field(q, "isActive") = <<filters.isActive>>
        ByComingSoon(q) == Field(q, "comingSoon") = <<filters.comingSoon>>
        p0 == Rows(S.products)
        p1 == IF "category" \in DOMAIN filters /\ filters.category # ""
              THEN SelectSeq(p0, ByCategory) ELSE p0
        p2 == IF "supplierId" \in DOMAIN filters /\ filters.supplierId # 0
              THEN SelectSeq(p1, BySupplier) ELSE p1
        p3 == IF "isActive" \in DOMAIN filters THEN SelectSeq(p2, ByActive) ELSE p2
    IN  IF "comingSoon" \in DOMAIN filters THEN SelectSeq(p3, ByComingSoon) ELSE p3

\* query = query.where(...): every call of where() sets the one condition of
\* the query builder, so the condition of the query run is the last one set
DbGetProducts(S, filters) ==
    LET ByCategory(q) == Field(q, "category") = <<filters.category>>
        BySupplier(q) == Field(q, "supplierId") = <<filters.supplierId>>
        ByActive(q) == Field(q, "isActive") = <<filters.isActive>>
        p0 == Rows(S.products)
        rows == IF "isActive" \in DOMAIN filters THEN SelectSeq(p0, ByActive)
                ELSE IF "supplierId" \in DOMAIN filters /\ filters.supplierId # 0
                THEN SelectSeq(p0, BySupplier)
                ELSE IF "category" \in DOMAIN filters /\ filters.category # ""
                THEN SelectSeq(p0, ByCategory)
                ELSE p0
        productList == [i \in DOMAIN rows |-> Spread(rows[i], DbProductDefaults)]
    IN  IF "comingSoon" \in DOMAIN filters /\ filters.comingSoon THEN <<>> ELSE productList

getProducts(S, filters) ==
    IF backend = "mem" THEN MemGetProducts(S, filters) ELSE DbGetProducts(S, filters)

MemUpdateProduct(S, id, product) ==
    IF id \notin DOMAIN S.products
    THEN [S |-> S, ret |-> <<>>]
    ELSE LET updatedProduct == Spread(S.products[id], product)
         IN  [S |-> [S EXCEPT !.products = Put(@, id, updatedProduct)],
              ret |-> <<updatedProduct>>]

\* the fields DatabaseStorage.updateProduct copies into updateData under the
\* table's own property names; imageUrls, availableSizes, availableColors,
\* supplierId, isActive, comingSoon and releaseDate are copied under
\* snake_case keys (DbRenamedColumns), which are no properties of the table
\* that getProduct selects from (products.supplierId, products.isActive, ...)
DbProductColumns == {"name", "description", "price", "category", "stock", "discount"}

DbRenamedColumns == {"supplierId", "isActive", "comingSoon", "releaseDate"}

\* set(updateData) writes the keys that are columns of the table.  With
\* none among the keys there is nothing to set and the statement fails; the
\* error is logged and thrown again.
DbUpdateProduct(S, id, product) ==
    LET updateData == [f \in DOMAIN product \cap DbProductColumns |-> product[f]]
    IN  IF DOMAIN product \cap (DbProductColumns \cup DbRenamedColumns) = {}
        THEN [S |-> S, ret |-> DbGetProduct(S, id)]
        ELSE IF DOMAIN updateData = {}
        THEN [S |-> S, ret |-> Throws]
        ELSE IF id \notin DOMAIN S.products
        THEN [S |-> S, ret |-> <<>>]
        ELSE LET updatedProduct == Spread(S.products[id], updateData)
             IN  [S |-> [S EXCEPT !.products = Put(@, id, updatedProduct)],
                  ret |-> <<updatedProduct>>]

updateProduct(S, id, product) ==
    IF backend = "mem" THEN MemUpdateProduct(S, id, product)
    ELSE DbUpdateProduct(S, id, product)

MemDeleteProduct(S, id) ==
    [S |-> [S EXCEPT !.products = Del(@, id)], ret |-> id \in DOMAIN S.products]

DbDeleteProduct(S, id) ==
    LET inv == {k \in DOMAIN S.supplierInventories : S.supplierInventories[k].productId = id}
        rev == {k \in DOMAIN S.reviews : S.reviews[k].productId = id}
    IN  [S |-> [S EXCEPT !.supplierInventories = DelAll(@, inv),
                         !.reviews = DelAll(@, rev),
                         !.products = Del(@, id)],
         ret |-> id \in DOMAIN S.products]

deleteProduct(S, id) ==
    IF backend = "mem" THEN MemDeleteProduct(S, id) ELSE DbDeleteProduct(S, id)

----------------------------------------------------------------------------
(* Supplier inventory management. *)

getInventory(S, supplierId) ==
    {k \in DOMAIN S.supplierInventories : S.supplierInventories[k].supplierId = supplierId}

InventoryKeys(S, supplierId, productId) ==
    {k \in DOMAIN S.supplierInventories :
        /\ S.supplierInventories[k].supplierId = supplierId
        /\ S.supplierInventories[k].productId = productId}

NewInventory(S, supplierId, productId, stock) ==
    [id |-> S.counters.inventory, supplierId |-> supplierId, productId |-> productId,
     availableStock |-> stock]

InsertInventory(S, row) ==
    [S EXCEPT !.supplierInventories = Put(@, row.id, row), !.counters.inventory = row.id + 1]

MemUpdateInventory(S, supplierId, productId, stock) ==
    LET inventory == FirstKey(InventoryKeys(S, supplierId, productId))
    IN  IF inventory = <<>>
        THEN LET newInventory == NewInventory(S, supplierId, productId, stock)
             IN  [S |-> InsertInventory(S, newInventory), ret |-> <<newInventory>>]
        ELSE LET updatedInventory ==
                     [S.supplierInventories[inventory[1]] EXCEPT !.availableStock = stock]
                 S1 == [S EXCEPT !.supplierInventories = Put(@, inventory[1], updatedInventory)]
                 S2 == IF MemGetProduct(S1, productId) # <<>>
                       THEN MemUpdateProduct(S1, productId, [stock |-> stock]).S
                       ELSE S1
             IN  [S |-> S2, ret |-> <<updatedInventory>>]

DbUpdateInventory(S, supplierId, productId, stock) ==
    LET existingInventory == FirstKey(InventoryKeys(S, supplierId, productId))
    IN  IF existingInventory = <<>>
        THEN LET newInventory == NewInventory(S, supplierId, productId, stock)
                 S1 == InsertInventory(S, newInventory)
             IN  [S |-> DbUpdateProduct(S1, productId, [stock |-> stock]).S,
                  ret |-> <<newInventory>>]
        ELSE LET hit == InventoryKeys(S, supplierId, productId)
                 S1 == [S EXCEPT !.supplierInventories =
                            [k \in DOMAIN @ |-> IF k \in hit
                                                THEN [@[k] EXCEPT !.availableStock = stock]
                                                ELSE @[k]]]
             IN  [S |-> DbUpdateProduct(S1, productId, [stock |-> stock]).S,
                  ret |-> <<S1.supplierInventories[existingInventory[1]]>>]

updateInventory(S, supplierId, productId, stock) ==
    IF backend = "mem" THEN MemUpdateInventory(S, supplierId, productId, stock)
    ELSE DbUpdateInventory(S, supplierId, productId, stock)

----------------------------------------------------------------------------
(* Order management. *)

getOrder(S, id) == IF id \in DOMAIN S.orders THEN <<S.orders[id]>> ELSE <<>>

\* a falsy customerId (0) or status ("") is skipped like a missing one
MemGetOrders(S, filters) ==
    LET ByCustomer(o) == o.customerId = filters.customerId
        ByStatus(o) == o.status = filters.status
        o0 == Rows(S.orders)
        o1 == IF "customerId" \in DOMAIN filters /\ filters.customerId # 0
              THEN SelectSeq(o0, ByCustomer) ELSE o0
    IN  IF "status" \in DOMAIN filters /\ filters.status # ""
        THEN SelectSeq(o1, ByStatus) ELSE o1

\* query = query.where(...): the condition of the query run is the last one
\* set, as in DbGetProducts
DbGetOrders(S, filters) ==
    LET ByCustomer(o) == o.customerId = filters.customerId
        ByStatus(o) == o.status = filters.status
        o0 == Rows(S.orders)
    IN  IF "status" \in DOMAIN filters /\ filters.status # ""
        THEN SelectSeq(o0, ByStatus)
        ELSE IF "customerId" \in DOMAIN filters /\ filters.customerId # 0
        THEN SelectSeq(o0, ByCustomer)
        ELSE o0

getOrders(S, filters) ==
    IF backend = "mem" THEN MemGetOrders(S, filters) ELSE DbGetOrders(S, filters)

MemUpdateOrder(S, id, order) ==
    IF id \notin DOMAIN S.orders
    THEN [S |-> S, ret |-> <<>>]
    ELSE LET updatedOrder == Spread(S.orders[id], order)
         IN  [S |-> [S EXCEPT !.orders = Put(@, id, updatedOrder)], ret |-> <<updatedOrder>>]

\* update(orders).set(order): with no value to set the statement fails
DbUpdateOrder(S, id, order) ==
    IF DOMAIN order = {} THEN [S |-> S, ret |-> Throws]
    ELSE MemUpdateOrder(S, id, order)

updateOrder(S, id, order) ==
    IF backend = "mem" THEN MemUpdateOrder(S, id, order) ELSE DbUpdateOrder(S, id, order)

createOrder(S, order) ==
    LET id == S.counters.order
        newOrder == Spread(order, [id |-> id])
    IN  [S |-> [S EXCEPT !.orders = Put(@, id, newOrder), !.counters.order = id + 1],
         ret |-> newOrder]

getOrderItems(S, orderId) ==
    {k \in DOMAIN S.orderItems : S.orderItems[k].orderId = orderId}

addOrderItem(S, orderItem) ==
    LET id == S.counters.orderItem
        newOrderItem == Spread(orderItem, [id |-> id])
    IN  [S |-> [S EXCEPT !.orderItems = Put(@, id, newOrderItem), !.counters.orderItem = id + 1],
         ret |-> newOrderItem]

\* deleteOrder, first statement: the order's items go (in MemStorage one by
\* one by item.id, in DatabaseStorage by one DELETE ... WHERE order_id = id)
\* deleteOrder without its first statement: the order's items are left behind
deleteOrderItems_Skipped(S, id) == S

deleteOrderItems(S, id) ==
    [S EXCEPT !.orderItems = DelAll(@, {S.orderItems[k].id : k \in getOrderItems(S, id)})]

\* deleteOrder, second statement: the order row goes; the result says whether
\* there was one
deleteOrderRow(S, id) ==
    [S |-> [S EXCEPT !.orders = Del(@, id)], ret |-> id \in DOMAIN S.orders]

----------------------------------------------------------------------------
(* Cart management: replace-or-create keyed by userId. *)

getCart(S, userId) ==
    LET k == FirstKey({x \in DOMAIN S.carts : S.carts[x].userId = userId})
    IN  IF k = <<>> THEN <<>> ELSE <<S.carts[k[1]]>>

MemUpdateCart(S, userId, items) ==
    LET old == getCart(S, userId)
    IN  IF old = <<>>
        THEN LET cart == [id |-> S.counters.cart, userId |-> userId, items |-> items]
             IN  [S |-> [S EXCEPT !.carts = Put(@, cart.id, cart), !.counters.cart = cart.id + 1],
                  ret |-> cart]
        ELSE LET cart == [old[1] EXCEPT !.items = items]
             IN  [S |-> [S EXCEPT !.carts = Put(@, cart.id, cart)], ret |-> cart]

DbUpdateCart(S, userId, items) ==
    LET existingCart == getCart(S, userId)
    IN  IF existingCart = <<>>
        THEN LET newCart == [id |-> S.counters.cart, userId |-> userId, items |-> items]
             IN  [S |-> [S EXCEPT !.carts = Put(@, newCart.id, newCart),
                                  !.counters.cart = newCart.id + 1],
                  ret |-> newCart]
        ELSE LET S1 == [S EXCEPT !.carts =
                            [k \in DOMAIN @ |-> IF @[k].userId = userId
                                                THEN [@[k] EXCEPT !.items = items]
                                                ELSE @[k]]]
             IN  [S |-> S1, ret |-> getCart(S1, userId)[1]]

updateCart(S, userId, items) ==
    IF backend = "mem" THEN MemUpdateCart(S, userId, items) ELSE DbUpdateCart(S, userId, items)

----------------------------------------------------------------------------
(* Reviews.  A stored customerId is <<n>> for the number n and <<>> for     *)
(* null.                                                                   *)

\* createReview storing a supplied 0 or negative customerId as it came (null
\* only for a missing one)
createReview_KeepingSupplied(S, review) ==
    LET id == S.counters.review
        reviewData == Spread(review, [customerId |-> Field(review, "customerId")])
        newReview == Spread(reviewData, [id |-> id])
    IN  [S |-> [S EXCEPT !.reviews = Put(@, id, newReview), !.counters.review = id + 1],
         ret |-> newReview]

\* review.customerId && review.customerId > 0 ? review.customerId : null, the
\* same in both classes
createReview(S, review) ==
    LET id == S.counters.review
        supplied == Field(review, "customerId")
        reviewData == Spread(review, [customerId |-> IF supplied # <<>> /\ supplied[1] > 0
                                                     THEN supplied ELSE <<>>])
        newReview == Spread(reviewData, [id |-> id])
    IN  [S |-> [S EXCEPT !.reviews = Put(@, id, newReview), !.counters.review = id + 1],
         ret |-> newReview]

deleteReview(S, id) ==
    [S |-> [S EXCEPT !.reviews = Del(@, id)], ret |-> id \in DOMAIN S.reviews]



----------------------------------------------------------------------------
(* The initial state: the repository as initializeDemoData leaves it       *)
(* (three users with plain-text passwords, four active products of         *)
(* supplier 2, their inventory rows, five reviews), and nobody logged in.  *)

Clients == {"c1", "c2"}

\* A stored password is the sequence of its dot-separated parts: a legacy
\* plain-text password is <<text>>, a hashed one <<digest, salt>>.
DemoUser(id, username, role) ==
    [id |-> id, username |-> username, password |-> <<"password123">>, role |-> role]

DemoProduct(id, stock) ==
    [id |-> id, category |-> "t-shirts", supplierId |-> 2, stock |-> stock, isActive |-> TRUE]

DemoInventory(id, stock) ==
    [id |-> id, supplierId |-> 2, productId |-> id, availableStock |-> stock]

DemoReview(id, productId, rating) ==
    [id |-> id, productId |-> productId, customerId |-> <<3>>, rating |-> rating]

NoCall == [op |-> "none", id |-> 0, supplierId |-> 0, stock |-> 0, ret |-> FALSE, rows |-> 0]

NoRequest == [route |-> "none", client |-> "none", user |-> 0, id |-> 0, body |-> <<>>]

NoResponse ==
    [route |-> "none", client |-> "none", status |-> 0, message |-> "", users |-> <<>>,
     handled |-> FALSE]

RegIdle == [pc |-> "idle", body |-> <<>>, hashed |-> <<>>]

Init ==
    /\ backend \in {"mem", "db"}
    /\ users = (1 :> DemoUser(1, "admin", "admin") @@ 2 :> DemoUser(2, "supplier", "supplier")
                @@ 3 :> DemoUser(3, "customer", "customer"))
    /\ products = (1 :> DemoProduct(1, 100) @@ 2 :> DemoProduct(2, 80)
                   @@ 3 :> DemoProduct(3, 60) @@ 4 :> DemoProduct(4, 40))
    /\ supplierInventories = (1 :> DemoInventory(1, 100) @@ 2 :> DemoInventory(2, 80)
                              @@ 3 :> DemoInventory(3, 60) @@ 4 :> DemoInventory(4, 40))
    /\ reviews = (1 :> DemoReview(1, 1, 5) @@ 2 :> DemoReview(2, 1, 4) @@ 3 :> DemoReview(3, 2, 5)
                  @@ 4 :> DemoReview(4, 3, 4) @@ 5 :> DemoReview(5, 4, 5))
    /\ orders = << >>
    /\ orderItems = << >>
    /\ carts = << >>
    /\ counters = [user |-> 4, product |-> 5, order |-> 1, orderItem |-> 1, cart |-> 1,
                   inventory |-> 5, review |-> 6]
    /\ session = [c \in Clients |-> 0]
    /\ reg = [c \in Clients |-> RegIdle]
    /\ pc = [op |-> "idle", id |-> 0, items |-> {}]
    /\ call = NoCall
    /\ req = NoRequest
    /\ resp = NoResponse

----------------------------------------------------------------------------
(* Direct calls of the repository, one at a time.                          *)

NewProductIds == 5..MaxProducts

ProductTargets == {1} \cup NewProductIds

SupplierTargets == {2, 3}

StockInputs == {0, 7}

Idle == pc.op = "idle"

CallCreateProduct(supplierId, stock) ==
    /\ Idle
    /\ counters.product <= MaxProducts
    /\ LET r == createProduct(Store, [supplierId |-> supplierId, stock |-> stock,
                                      isActive |-> TRUE])
       IN  /\ SetStore(r.S)
           /\ call' = [op |-> "createProduct", id |-> r.ret.id, supplierId |-> supplierId,
                       stock |-> stock, ret |-> TRUE, rows |-> 0]
    /\ UNCHANGED <<backend, session, reg, pc, req, resp>>

CallUpdateProduct(id, stock) ==
    /\ Idle
    /\ LET r == updateProduct(Store, id, [stock |-> stock])
       IN  /\ SetStore(r.S)
           /\ call' = [op |-> "updateProduct", id |-> id, supplierId |-> 0, stock |-> stock,
                       ret |-> r.ret # <<>>, rows |-> 0]
    /\ UNCHANGED <<backend, session, reg, pc, req, resp>>

CallDeleteProduct(id) ==
    /\ Idle
    /\ LET r == deleteProduct(Store, id)
       IN  /\ SetStore(r.S)
           /\ call' = [op |-> "deleteProduct", id |-> id, supplierId |-> 0, stock |-> 0,
                       ret |-> r.ret, rows |-> 0]
    /\ UNCHANGED <<backend, session, reg, pc, req, resp>>

CallUpdateInventory(supplierId, productId, stock) ==
    /\ Idle
    /\ InventoryKeys(Store, supplierId, productId) # {} \/ counters.inventory <= MaxInventories
    /\ LET r == updateInventory(Store, supplierId, productId, stock)
       IN  /\ SetStore(r.S)
           /\ call' = [op |-> "updateInventory", id |-> productId, supplierId |-> supplierId,
                       stock |-> stock, ret |-> r.ret # <<>>, rows |-> 0]
    /\ UNCHANGED <<backend, session, reg, pc, req, resp>>

Next ==
    \/ \E n \in StockInputs : CallCreateProduct(2, n)
    \/ \E p \in ProductTargets, n \in StockInputs : CallUpdateProduct(p, n)
    \/ \E p \in ProductTargets : CallDeleteProduct(p)
    \/ \E s \in SupplierTargets, p \in ProductTargets, n \in StockInputs :
           CallUpdateInventory(s, p, n)

Spec == Init /\ [][Next]_vars


----------------------------------------------------------------------------
(* Claims about the repository (checked under Spec).                       *)

\* C1: once updateInventory(supplierId, p.id, n) has completed on an existing
\* product p, getProduct(p.id) returns a record with stock = n, whether the
\* call created the (supplierId, p.id) inventory row or updated it.
C1_UpdateInventoryThenGetProduct ==
    (call.op = "updateInventory" /\ getProduct(Store, call.id) # <<>>)
        => getProduct(Store, call.id)[1].stock = call.stock

\* C2: after deleteProduct(id) the product is absent, no SupplierInventory row
\* and no Review with productId = id remains, and the result is TRUE exactly
\* when a product with that id existed before the call.
C2_DeleteProductCascades ==
    [][call'.op = "deleteProduct" /\ call' # call =>
          /\ getProduct(Store', call'.id) = <<>>
          /\ \A k \in DOMAIN supplierInventories' :
                 supplierInventories'[k].productId # call'.id
          /\ \A k \in DOMAIN reviews' : reviews'[k].productId # call'.id
          /\ call'.ret = (call'.id \in DOMAIN products)]_vars


----------------------------------------------------------------------------
(* Direct calls of the order methods.  deleteOrder is two statements, the  *)
(* items and then the order row; pc holds the call between them.           *)

OrderTargets == 1..MaxOrders

Quantities == {1, 2}

CallCreateOrder(customerId) ==
    /\ Idle
    /\ counters.order <= MaxOrders
    /\ LET r == createOrder(Store, [customerId |-> customerId, status |-> "pending",
                                    paymentStatus |-> "pending"])
       IN  /\ SetStore(r.S)
           /\ call' = [op |-> "createOrder", id |-> r.ret.id, supplierId |-> 0, stock |-> 0,
                       ret |-> TRUE, rows |-> 0]
    /\ UNCHANGED <<backend, session, reg, pc, req, resp>>

CallAddOrderItem(orderId, productId, quantity) ==
    /\ Idle
    /\ counters.orderItem <= MaxOrderItems
    /\ LET r == addOrderItem(Store, [orderId |-> orderId, productId |-> productId,
                                     quantity |-> quantity])
       IN  /\ SetStore(r.S)
           /\ call' = [op |-> "addOrderItem", id |-> orderId, supplierId |-> 0, stock |-> 0,
                       ret |-> TRUE, rows |-> 0]
    /\ UNCHANGED <<backend, session, reg, pc, req, resp>>

CallDeleteOrderItems(id) ==
    /\ Idle
    /\ pc' = [op |-> "deleteOrder", id |-> id, items |-> getOrderItems(Store, id)]
    /\ SetStore(deleteOrderItems(Store, id))
    /\ UNCHANGED <<backend, session, reg, call, req, resp>>

CallDeleteOrderRow ==
    /\ pc.op = "deleteOrder"
    /\ LET r == deleteOrderRow(Store, pc.id)
       IN  /\ SetStore(r.S)
           /\ call' = [op |-> "deleteOrder", id |-> pc.id, supplierId |-> 0, stock |-> 0,
                       ret |-> r.ret, rows |-> Cardinality(pc.items)]
    /\ pc' = [op |-> "idle", id |-> 0, items |-> {}]
    /\ UNCHANGED <<backend, session, reg, req, resp>>

NextOrder ==
    \/ CallCreateOrder(3)
    \/ \E o \in OrderTargets, q \in Quantities : CallAddOrderItem(o, 1, q)
    \/ \E o \in OrderTargets : CallDeleteOrderItems(o)
    \/ CallDeleteOrderRow

SpecOrder == Init /\ [][NextOrder]_vars

\* C3: after deleteOrder(id) the order is absent and getOrderItems(id) is
\* empty; the order row is removed only once none of its items is left
\* (children before parent); the only items a step removes are those of the
\* order being deleted, and no remaining item changes.
C3_DeleteOrderCascades ==
    [][/\ call'.op = "deleteOrder" =>
              /\ getOrder(Store', call'.id) = <<>>
              /\ getOrderItems(Store', call'.id) = {}
       /\ \A id \in DOMAIN orders \ DOMAIN orders' : getOrderItems(Store, id) = {}
       /\ \A k \in DOMAIN orderItems \ DOMAIN orderItems' :
              pc'.op = "deleteOrder" /\ orderItems[k].orderId = pc'.id
       /\ \A k \in DOMAIN orderItems \cap DOMAIN orderItems' : orderItems'[k] = orderItems[k]
      ]_vars

\* an order with items was deleted while another order keeps its items
C3_Witness ==
    /\ call.op = "deleteOrder" /\ call.ret /\ call.rows > 0
    /\ \E k \in DOMAIN orderItems : orderItems[k].orderId \in DOMAIN orders


----------------------------------------------------------------------------
(* Authentication service (auth.ts).                                       *)

\* scrypt(password, salt, 64) in hex: one digest per (password, salt) pair
scrypt(password, salt) == "scrypt(" \o password \o "," \o salt \o ")"

\* `${buf.toString("hex")}.${salt}`
hashPassword(password, salt) == <<scrypt(password, salt), salt>>

comparePasswords(supplied, stored) ==
    IF Len(stored) > 1
    THEN stored[1] = scrypt(supplied, stored[2])
    ELSE supplied = stored[1]

\* passport.deserializeUser: the session's user id looked up in the repository
CurrentUser(c) == getUser(Store, session[c])

isAuthenticated(c) == session[c] # 0 /\ CurrentUser(c) # <<>>

\* the LocalStrategy verify callback: <<user>> for done(null, user), <<>> for
\* done(null, false)
LocalStrategy(username, password) ==
    LET user == getUserByUsername(Store, username)
    IN  IF user = <<>> THEN <<>>
        ELSE IF ~comparePasswords(password, user[1].password) THEN <<>>
        ELSE user

\* requireRole of auth.ts (exported as req.requireRole): 0 stands for next()
authRequireRole(role, c) ==
    IF ~isAuthenticated(c) THEN 401
    ELSE IF CurrentUser(c)[1].role \notin role THEN 403
    ELSE 0

----------------------------------------------------------------------------
(* Route handlers (routes.ts).  A handler runs from the request to its     *)
(* response in one step; req and resp hold the exchange.                   *)

\* a guard that checks the session only and lets every role through
requireRole_AnyRole(roles, c) ==
    IF ~isAuthenticated(c) \/ CurrentUser(c) = <<>> THEN 401 ELSE 0

\* requireRole of routes.ts, the guard every route below is registered with
requireRole(roles, c) ==
    IF ~isAuthenticated(c) \/ CurrentUser(c) = <<>> THEN 401
    ELSE IF CurrentUser(c)[1].role \notin roles THEN 403
    ELSE 0

Request(route, c, id, body) ==
    [route |-> route, client |-> c, user |-> session[c], id |-> id, body |-> body]

\* a response sent by the handler itself; users are the user records its body
\* carries
Respond(status, message, userRecords) ==
    resp' = [route |-> req'.route, client |-> req'.client, status |-> status,
             message |-> message, users |-> userRecords, handled |-> TRUE]

\* a response sent by the guard: the handler is not run
Denied(status) ==
    /\ resp' = [route |-> req'.route, client |-> req'.client, status |-> status,
                message |-> IF status = 401 THEN "Unauthorized"
                            ELSE "Forbidden: Insufficient permissions",
                users |-> <<>>, handled |-> FALSE]
    /\ UNCHANGED <<tables, session>>

\* the allowed-role set each guarded route is registered with
RouteRoles ==
    [r \in {"POST /api/products", "PUT /api/products/:id"} |-> {"admin", "supplier"}]
    @@ [r \in {"DELETE /api/products/:id", "GET /api/users/:id", "GET /api/admin/customers",
               "GET /api/admin/suppliers"} |-> {"admin"}]
    @@ [r \in {"POST /api/orders", "PUT /api/cart"} |-> {"customer"}]
    @@ [r \in {"PUT /api/inventory/:productId"} |-> {"supplier"}]

Guard(route, c) == requireRole(RouteRoles[route], c)

\* a login that tells an unknown username from a wrong password
Login_Enumerating(c, username, password) ==
    /\ req' = Request("POST /api/login", c, 0, [username |-> username, password |-> password])
    /\ LET user == LocalStrategy(username, password)
       IN  IF getUserByUsername(Store, username) = <<>>
           THEN /\ Respond(401, "Unknown user", <<>>)
                /\ UNCHANGED session
           ELSE IF user = <<>>
           THEN /\ Respond(401, "Invalid credentials", <<>>)
                /\ UNCHANGED session
           ELSE /\ session' = [session EXCEPT ![c] = user[1].id]
                /\ Respond(200, "", <<Without(user[1], "password")>>)
    /\ UNCHANGED <<backend, tables, reg, pc, call>>

Login(c, username, password) ==
    /\ req' = Request("POST /api/login", c, 0, [username |-> username, password |-> password])
    /\ LET user == LocalStrategy(username, password)
       IN  IF user = <<>>
           THEN /\ Respond(401, "Invalid credentials", <<>>)
                /\ UNCHANGED session
           ELSE /\ session' = [session EXCEPT ![c] = user[1].id]
                /\ Respond(200, "", <<Without(user[1], "password")>>)
    /\ UNCHANGED <<backend, tables, reg, pc, call>>

Logout(c) ==
    /\ req' = Request("POST /api/logout", c, 0, <<>>)
    /\ session' = [session EXCEPT ![c] = 0]
    /\ Respond(200, "", <<>>)
    /\ UNCHANGED <<backend, tables, reg, pc, call>>

GetUser(c) ==
    /\ req' = Request("GET /api/user", c, 0, <<>>)
    /\ IF ~isAuthenticated(c)
       THEN Respond(401, "", <<>>)
       ELSE Respond(200, "", <<Without(CurrentUser(c)[1], "password")>>)
    /\ UNCHANGED <<backend, tables, session, reg, pc, call>>

GetUsersId(c, userId) ==
    /\ req' = Request("GET /api/users/:id", c, userId, <<>>)
    /\ LET g == Guard("GET /api/users/:id", c)
       IN  IF g # 0 THEN Denied(g)
           ELSE LET user == getUser(Store, userId)
                IN  /\ UNCHANGED <<tables, session>>
                    /\ IF user = <<>> THEN Respond(404, "User not found", <<>>)
                       ELSE Respond(200, "", user)
    /\ UNCHANGED <<backend, reg, pc, call>>

\* customers.map(customer => ({ ...customer, orderCount }))
GetAdminCustomers(c) ==
    /\ req' = Request("GET /api/admin/customers", c, 0, <<>>)
    /\ LET g == Guard("GET /api/admin/customers", c)
       IN  IF g # 0 THEN Denied(g)
           ELSE LET customers == getUsersByRole(Store, "customer")
                    orderCount(u) ==
                        Cardinality({k \in DOMAIN orders : orders[k].customerId = u.id})
                IN  /\ UNCHANGED <<tables, session>>
                    /\ Respond(200, "", [i \in 1..Len(customers) |->
                           Spread(customers[i], [orderCount |-> orderCount(customers[i])])])
    /\ UNCHANGED <<backend, reg, pc, call>>

\* suppliers.map(supplier => ({ ...supplier, productCount }))
GetAdminSuppliers(c) ==
    /\ req' = Request("GET /api/admin/suppliers", c, 0, <<>>)
    /\ LET g == Guard("GET /api/admin/suppliers", c)
       IN  IF g # 0 THEN Denied(g)
           ELSE LET suppliers == getUsersByRole(Store, "supplier")
                    productCount(u) ==
                        Cardinality({k \in DOMAIN products : products[k].supplierId = u.id})
                IN  /\ UNCHANGED <<tables, session>>
                    /\ Respond(200, "", [i \in 1..Len(suppliers) |->
                           Spread(suppliers[i], [productCount |-> productCount(suppliers[i])])])
    /\ UNCHANGED <<backend, reg, pc, call>>


PostProducts(c, body) ==
    /\ counters.product <= MaxProducts
    /\ req' = Request("POST /api/products", c, 0, body)
    /\ LET g == Guard("POST /api/products", c)
       IN  IF g # 0 THEN Denied(g)
           ELSE LET user == CurrentUser(c)[1]
                    productData == IF user.role = "supplier"
                                   THEN [body EXCEPT !.supplierId = user.id]
                                   ELSE body
                    r == createProduct(Store, productData)
                    product == r.ret
                IN  /\ SetStore(updateInventory(r.S, product.supplierId, product.id,
                                                product.stock).S)
                    /\ Respond(201, "", <<>>)
                    /\ UNCHANGED session
    /\ UNCHANGED <<backend, reg, pc, call>>

\* a handler that writes the product and leaves the inventory alone
PutProduct_ProductOnly(c, productId, body) ==
    /\ req' = Request("PUT /api/products/:id", c, productId, body)
    /\ LET g == Guard("PUT /api/products/:id", c)
       IN  IF g # 0 THEN Denied(g)
           ELSE LET product == getProduct(Store, productId)
                    user == CurrentUser(c)[1]
                IN  /\ UNCHANGED session
                    /\ IF product = <<>>
                       THEN Respond(404, "Product not found", <<>>) /\ UNCHANGED tables
                       ELSE IF user.role = "supplier" /\ product[1].supplierId # user.id
                       THEN /\ Respond(403, "You can only update your own products", <<>>)
                            /\ UNCHANGED tables
                       ELSE LET r == updateProduct(Store, productId, body)
                            IN  IF r.ret = Throws
                                THEN /\ Respond(500, "Failed to update product", <<>>)
                                     /\ UNCHANGED tables
                                ELSE SetStore(r.S) /\ Respond(200, "", <<>>)
    /\ UNCHANGED <<backend, reg, pc, call>>

\* PUT /api/products/:id: the raw body goes to updateProduct, and its stock,
\* when it has one, to updateInventory for the supplier the product had
PutProduct(c, productId, body) ==
    /\ req' = Request("PUT /api/products/:id", c, productId, body)
    /\ LET g == Guard("PUT /api/products/:id", c)
       IN  IF g # 0 THEN Denied(g)
           ELSE LET product == getProduct(Store, productId)
                    user == CurrentUser(c)[1]
                IN  /\ UNCHANGED session
                    /\ IF product = <<>>
                       THEN Respond(404, "Product not found", <<>>) /\ UNCHANGED tables
                       ELSE IF user.role = "supplier" /\ product[1].supplierId # user.id
                       THEN /\ Respond(403, "You can only update your own products", <<>>)
                            /\ UNCHANGED tables
                       ELSE LET r == updateProduct(Store, productId, body)
                                S1 == r.S
                                S2 == IF "stock" \in DOMAIN body
                                      THEN updateInventory(S1, product[1].supplierId, productId,
                                                           body.stock).S
                                      ELSE S1
                            IN  IF r.ret = Throws
                                THEN /\ Respond(500, "Failed to update product", <<>>)
                                     /\ UNCHANGED tables
                                ELSE SetStore(S2) /\ Respond(200, "", <<>>)
    /\ UNCHANGED <<backend, reg, pc, call>>

\* POST /api/products/coming-soon: the body is not parsed; stock, isActive
\* and comingSoon are fixed, a supplier's supplierId is the supplier's own id,
\* and no inventory row is written
PostComingSoon(c, body) ==
    /\ counters.product <= MaxProducts
    /\ req' = Request("POST /api/products/coming-soon", c, 0, body)
    /\ LET g == requireRole({"admin", "supplier"}, c)
       IN  IF g # 0 THEN Denied(g)
           ELSE LET productUser == CurrentUser(c)[1]
                    fixed == Spread(body, [stock |-> 0, isActive |-> FALSE,
                                           comingSoon |-> TRUE])
                    productData == IF productUser.role = "supplier"
                                   THEN Spread(fixed, [supplierId |-> productUser.id])
                                   ELSE fixed
                IN  /\ SetStore(createProduct(Store, productData).S)
                    /\ Respond(201, "", <<>>)
                    /\ UNCHANGED session
    /\ UNCHANGED <<backend, reg, pc, call>>

DeleteProduct(c, productId) ==
    /\ req' = Request("DELETE /api/products/:id", c, productId, <<>>)
    /\ LET g == Guard("DELETE /api/products/:id", c)
       IN  IF g # 0 THEN Denied(g)
           ELSE LET r == deleteProduct(Store, productId)
                IN  /\ SetStore(r.S)
                    /\ UNCHANGED session
                    /\ IF ~r.ret THEN Respond(404, "Product not found", <<>>)
                       ELSE Respond(204, "", <<>>)
    /\ UNCHANGED <<backend, reg, pc, call>>

\* a handler without the ownership check
PutInventory_AnySupplier(c, productId, stock) ==
    /\ req' = Request("PUT /api/inventory/:productId", c, productId, [stock |-> stock])
    /\ LET g == Guard("PUT /api/inventory/:productId", c)
       IN  IF g # 0 THEN Denied(g)
           ELSE LET product == getProduct(Store, productId)
                    inventoryUser == CurrentUser(c)[1]
                IN  /\ UNCHANGED session
                    /\ IF stock < 0
                       THEN Respond(400, "Invalid stock value", <<>>) /\ UNCHANGED tables
                       ELSE IF product = <<>>
                       THEN Respond(404, "Product not found", <<>>) /\ UNCHANGED tables
                       ELSE LET S1 == updateInventory(Store, inventoryUser.id, productId, stock).S
                            IN  /\ SetStore(updateProduct(S1, productId, [stock |-> stock]).S)
                                /\ Respond(200, "", <<>>)
    /\ UNCHANGED <<backend, reg, pc, call>>

\* PUT /api/inventory/:productId: the stock is validated first, then the
\* product is looked up, then its owner is compared with the session's user
PutInventory(c, productId, stock) ==
    /\ req' = Request("PUT /api/inventory/:productId", c, productId, [stock |-> stock])
    /\ LET g == Guard("PUT /api/inventory/:productId", c)
       IN  IF g # 0 THEN Denied(g)
           ELSE LET product == getProduct(Store, productId)
                    inventoryUser == CurrentUser(c)[1]
                IN  /\ UNCHANGED session
                    /\ IF stock < 0
                       THEN Respond(400, "Invalid stock value", <<>>) /\ UNCHANGED tables
                       ELSE IF product = <<>>
                       THEN Respond(404, "Product not found", <<>>) /\ UNCHANGED tables
                       ELSE IF product[1].supplierId # inventoryUser.id
                       THEN /\ Respond(403, "You can only update your own inventory", <<>>)
                            /\ UNCHANGED tables
                       ELSE LET S1 == updateInventory(Store, inventoryUser.id, productId, stock).S
                            IN  /\ SetStore(updateProduct(S1, productId, [stock |-> stock]).S)
                                /\ Respond(200, "", <<>>)
    /\ UNCHANGED <<backend, reg, pc, call>>

\* the per-item loop without Math.max(0, ...)
RECURSIVE PlaceItems_Unclamped(_, _, _, _)
PlaceItems_Unclamped(S, orderId, items, n) ==
    IF n = 0 THEN S
    ELSE LET S0 == PlaceItems_Unclamped(S, orderId, items, n - 1)
             item == items[n]
             S1 == addOrderItem(S0, Spread(item, [orderId |-> orderId])).S
             product == getProduct(S1, item.productId)
         IN  IF product = <<>> THEN S1
             ELSE LET newStock == product[1].stock - item.quantity
                      S2 == updateProduct(S1, item.productId, [stock |-> newStock]).S
                  IN  updateInventory(S2, product[1].supplierId, product[1].id, newStock).S

\* the per-item loop of POST /api/orders: the store after items[1..n]
RECURSIVE PlaceItems(_, _, _, _)
PlaceItems(S, orderId, items, n) ==
    IF n = 0 THEN S
    ELSE LET S0 == PlaceItems(S, orderId, items, n - 1)
             item == items[n]
             S1 == addOrderItem(S0, Spread(item, [orderId |-> orderId])).S
             product == getProduct(S1, item.productId)
         IN  IF product = <<>> THEN S1
             ELSE LET newStock == Max2(0, product[1].stock - item.quantity)
                      S2 == updateProduct(S1, item.productId, [stock |-> newStock]).S
                  IN  updateInventory(S2, product[1].supplierId, product[1].id, newStock).S

\* the order_items insert schema as the specification describes the entity:
\* a line item names its product and its quantity
insertOrderItemSchema(item) == {"productId", "quantity"} \subseteq DOMAIN item

\* the index of the first line item insertOrderItemSchema.parse throws on, 0
\* when there is none
FirstInvalid(items) ==
    IF \A i \in DOMAIN items : insertOrderItemSchema(items[i]) THEN 0
    ELSE Min({i \in DOMAIN items : ~insertOrderItemSchema(items[i])})

\* a handler that validates every line item before it writes anything
PostOrders_ValidatingFirst(c, items) ==
    /\ counters.order <= MaxApiOrders
    /\ req' = Request("POST /api/orders", c, 0, [items |-> items])
    /\ LET g == Guard("POST /api/orders", c)
       IN  IF g # 0 THEN Denied(g)
           ELSE LET createOrderUser == CurrentUser(c)[1]
                    invalid == FirstInvalid(items)
                    r == createOrder(Store, [customerId |-> createOrderUser.id,
                                             status |-> "pending", paymentStatus |-> "pending"])
                    S1 == PlaceItems(r.S, r.ret.id, items, Len(items))
                IN  IF invalid # 0
                    THEN /\ Respond(400, "Validation failed", <<>>)
                         /\ UNCHANGED <<tables, session>>
                    ELSE /\ SetStore(updateCart(S1, createOrderUser.id, <<>>).S)
                         /\ Respond(201, "", <<>>)
                         /\ UNCHANGED session
    /\ UNCHANGED <<backend, reg, pc, call>>

\* POST /api/orders: the loop stops at the first line item the schema
\* rejects, and the catch block answers through handleZodError
PostOrders(c, items) ==
    /\ counters.order <= MaxApiOrders
    /\ req' = Request("POST /api/orders", c, 0, [items |-> items])
    /\ LET g == Guard("POST /api/orders", c)
       IN  IF g # 0 THEN Denied(g)
           ELSE LET createOrderUser == CurrentUser(c)[1]
                    invalid == FirstInvalid(items)
                    r == createOrder(Store, [customerId |-> createOrderUser.id,
                                             status |-> "pending", paymentStatus |-> "pending"])
                    S1 == PlaceItems(r.S, r.ret.id, items,
                                     IF invalid # 0 THEN invalid - 1 ELSE Len(items))
                IN  IF invalid # 0
                    THEN /\ SetStore(S1)
                         /\ Respond(400, "Validation failed", <<>>)
                         /\ UNCHANGED session
                    ELSE /\ SetStore(updateCart(S1, createOrderUser.id, <<>>).S)
                         /\ Respond(201, "", <<>>)
                         /\ UNCHANGED session
    /\ UNCHANGED <<backend, reg, pc, call>>

PutCart(c, items) ==
    /\ req' = Request("PUT /api/cart", c, 0, [items |-> items])
    /\ LET g == Guard("PUT /api/cart", c)
       IN  IF g # 0 THEN Denied(g)
           ELSE /\ SetStore(updateCart(Store, CurrentUser(c)[1].id, items).S)
                /\ Respond(200, "", <<>>)
                /\ UNCHANGED session
    /\ UNCHANGED <<backend, reg, pc, call>>


----------------------------------------------------------------------------
(* The stock-changing routes used by one client, one request at a time.    *)

ApiStockInputs == {-1, 10}

\* req.body.items: no line item, one for fewer and one for more than a stock
\* of 10, two for the same product, and one for a product that does not
\* exist ahead of one that does
ItemLists ==
    {<<>>,
     <<[productId |-> 1, quantity |-> 3]>>,
     <<[productId |-> 1, quantity |-> 12]>>,
     <<[productId |-> 1, quantity |-> 3], [productId |-> 1, quantity |-> 12]>>,
     <<[productId |-> 9, quantity |-> 3], [productId |-> 1, quantity |-> 3]>>}

CartInput == <<[productId |-> 1, quantity |-> 1]>>

NextApi ==
    \/ \E u \in {"supplier", "customer"} : Login("c1", u, "password123")
    \/ PostProducts("c1", [supplierId |-> 1, stock |-> 10, isActive |-> TRUE])
    \/ \E p \in ProductTargets, n \in ApiStockInputs : PutProduct("c1", p, [stock |-> n])
    \/ \E p \in ProductTargets, n \in ApiStockInputs : PutInventory("c1", p, n)
    \/ \E items \in ItemLists : PostOrders("c1", items)
    \/ PutCart("c1", CartInput)

SpecApi == Init /\ [][NextApi]_vars

\* the stock a product ends with when the line items are taken one after the
\* other, each taking its quantity from what the earlier ones left, never
\* below zero
RECURSIVE StockAfter(_, _, _)
StockAfter(stock, items, productId) ==
    IF items = <<>> THEN stock
    ELSE StockAfter(IF Head(items).productId = productId
                    THEN Max2(0, stock - Head(items).quantity)
                    ELSE stock,
                    Tail(items), productId)

\* C4: when POST /api/orders answers 201, every line item's existing product
\* has its stock lowered by the quantity and clamped at 0, the inventory row
\* of (product.supplierId, product.id) holds the same value, and the
\* customer's cart has an empty item list.
C4_OrderDecrementsStock ==
    [][(req'.route = "POST /api/orders" /\ resp'.status = 201) =>
          /\ \A i \in DOMAIN req'.body.items :
                LET p == req'.body.items[i].productId
                IN  p \in DOMAIN products =>
                      /\ products'[p].stock = StockAfter(products[p].stock, req'.body.items, p)
                      /\ InventoryKeys(Store', products[p].supplierId, p) # {}
                      /\ \A k \in InventoryKeys(Store', products[p].supplierId, p) :
                            supplierInventories'[k].availableStock = products'[p].stock
          /\ getCart(Store', req'.user) # <<>>
          /\ getCart(Store', req'.user)[1].items = <<>>]_vars

\* stock 10, quantity 3 gives 7
C4_Witness ==
    /\ req.route = "POST /api/orders"
    /\ resp.status = 201
    /\ req.body.items = <<[productId |-> 1, quantity |-> 3]>>
    /\ products[1].stock = 7
    /\ \E k \in InventoryKeys(Store, 2, 1) : supplierInventories[k].availableStock = 7
    /\ getCart(Store, req.user) # <<>>

\* C5: in every state reachable through the API's requests every product's
\* stock is at least 0.
C5_StockNeverNegative == \A p \in DOMAIN products : products[p].stock >= 0

----------------------------------------------------------------------------
(* Every guarded route, asked for by one client under each of the roles    *)
(* and without a session.                                                  *)

DemoNames == {"admin", "supplier", "customer"}

NextGuard ==
    \/ \E u \in DemoNames : Login("c1", u, "password123")
    \/ Logout("c1")
    \/ PostProducts("c1", [supplierId |-> 1, stock |-> 10, isActive |-> TRUE])
    \/ PutProduct("c1", 1, [stock |-> 10])
    \/ \E p \in NewProductIds : DeleteProduct("c1", p)
    \/ PutInventory("c1", 1, 10)
    \/ PostOrders("c1", <<[productId |-> 1, quantity |-> 3]>>)
    \/ PutCart("c1", CartInput)
    \/ GetUsersId("c1", 1)
    \/ GetAdminCustomers("c1")
    \/ GetAdminSuppliers("c1")

SpecGuard == Init /\ [][NextGuard]_vars

\* C7: a guarded route answers 401 without a session and 403 for a role that
\* is not allowed, in both cases without running its handler and without
\* changing the repository or the sessions; the handler runs only for an
\* allowed role.  The guard of auth.ts decides the same way.
C7_RoleGuard ==
    [][/\ req'.route \in DOMAIN RouteRoles =>
            LET R == RouteRoles[req'.route]
                u == getUser(Store, req'.user)
            IN  /\ u = <<>> =>
                      /\ resp'.status = 401 /\ ~resp'.handled
                      /\ UNCHANGED <<tables, session>>
                /\ (u # <<>> /\ u[1].role \notin R) =>
                      /\ resp'.status = 403 /\ ~resp'.handled
                      /\ UNCHANGED <<tables, session>>
                /\ resp'.handled => (u # <<>> /\ u[1].role \in R)
                /\ (u # <<>> /\ u[1].role \in R) => resp'.handled
       /\ \A c \in Clients, R \in SUBSET {"admin", "supplier", "customer"} :
            authRequireRole(R, c) =
                IF session[c] \notin DOMAIN users THEN 401
                ELSE IF users[session[c]].role \notin R THEN 403
                ELSE 0]_vars

\* an admin turned away from the supplier-only inventory route
C7_Witness ==
    /\ req.route = "PUT /api/inventory/:productId"
    /\ req.user = 1
    /\ resp.status = 403
    /\ ~resp.handled


----------------------------------------------------------------------------
(* The order views.  Orders, their items, a second customer and a product  *)
(* of another supplier come from direct repository calls; one client logs  *)
(* in and reads.                                                           *)

\* res.json(orders): an answer that carries orders
RespondOrders(status, orderRecords) ==
    resp' = [route |-> req'.route, client |-> req'.client, status |-> status, message |-> "",
             users |-> <<>>, handled |-> TRUE, orders |-> orderRecords]

\* the roles GET /api/orders and GET /api/orders/:id are registered with
OrderViewRoles == {"admin", "customer", "supplier"}

\* getOrderItems(order.id) as the list the handlers filter
OrderItemRows(S, orderId) ==
    LET ks == KeySeq(getOrderItems(S, orderId))
    IN  [i \in 1..Len(ks) |-> S.orderItems[ks[i]]]

\* supplierProducts.map(product => product.id)
SupplierProductIds(S, supplierId) ==
    LET supplierProducts == getProducts(S, [supplierId |-> supplierId])
    IN  {supplierProducts[i].id : i \in DOMAIN supplierProducts}

\* the orders.map(...) of GET /api/orders for a supplier, nulls filtered out
RECURSIVE SupplierOrders(_, _, _)
SupplierOrders(S, orderList, supplierProductIds) ==
    IF orderList = <<>> THEN <<>>
    ELSE LET order == Head(orderList)
             items == OrderItemRows(S, order.id)
             Mine(item) == item.productId \in supplierProductIds
             rest == SupplierOrders(S, Tail(orderList), supplierProductIds)
         IN  IF \E i \in DOMAIN items : Mine(items[i])
             THEN <<Spread(order, [items |-> SelectSeq(items, Mine)])>> \o rest
             ELSE rest

\* query: the query string, with customerId already a number
GetOrders(c, query) ==
    /\ req' = Request("GET /api/orders", c, 0, query)
    /\ LET g == requireRole(OrderViewRoles, c)
       IN  IF g # 0 THEN Denied(g)
           ELSE LET currentUser == CurrentUser(c)[1]
                    f1 == IF currentUser.role = "customer"
                          THEN [customerId |-> currentUser.id]
                          ELSE IF "customerId" \in DOMAIN query
                          THEN [customerId |-> query.customerId]
                          ELSE <<>>
                    filters == IF "status" \in DOMAIN query /\ query.status # ""
                               THEN Spread(f1, [status |-> query.status])
                               ELSE f1
                    orderList == getOrders(Store, filters)
                IN  /\ UNCHANGED <<tables, session>>
                    /\ IF currentUser.role = "supplier"
                       THEN RespondOrders(200, SupplierOrders(Store, orderList,
                                              SupplierProductIds(Store, currentUser.id)))
                       ELSE RespondOrders(200, orderList)
    /\ UNCHANGED <<backend, reg, pc, call>>

GetOrder(c, orderId) ==
    /\ req' = Request("GET /api/orders/:id", c, orderId, <<>>)
    /\ LET g == requireRole(OrderViewRoles, c)
       IN  IF g # 0 THEN Denied(g)
           ELSE LET order == getOrder(Store, orderId)
                    orderUser == CurrentUser(c)[1]
                    items == OrderItemRows(Store, orderId)
                    supplierProductIds == SupplierProductIds(Store, orderUser.id)
                    Mine(item) == item.productId \in supplierProductIds
                IN  /\ UNCHANGED <<tables, session>>
                    /\ IF order = <<>> THEN Respond(404, "Order not found", <<>>)
                       ELSE IF orderUser.role = "customer"
                               /\ order[1].customerId # orderUser.id
                       THEN Respond(403, "You can only view your own orders", <<>>)
                       ELSE IF orderUser.role = "supplier"
                       THEN IF ~\E i \in DOMAIN items : Mine(items[i])
                            THEN Respond(403,
                                     "You can only view orders containing your products", <<>>)
                            ELSE RespondOrders(200,
                                     <<Spread(order[1], [items |-> SelectSeq(items, Mine)])>>)
                       ELSE RespondOrders(200, <<Spread(order[1], [items |-> items])>>)
    /\ UNCHANGED <<backend, reg, pc, call>>

CallCreateUser(username, role) ==
    /\ Idle
    /\ counters.user <= MaxUsers
    /\ LET r == createUser(Store, [username |-> username, role |-> role,
                                   password |-> hashPassword("pw1", "s1")])
       IN  /\ SetStore(r.S)
           /\ call' = [op |-> "createUser", id |-> r.ret.id, supplierId |-> 0, stock |-> 0,
                       ret |-> TRUE, rows |-> 0]
    /\ UNCHANGED <<backend, session, reg, pc, req, resp>>

CallUpdateOrder(id, order) ==
    /\ Idle
    /\ LET r == updateOrder(Store, id, order)
       IN  /\ SetStore(r.S)
           /\ call' = [op |-> "updateOrder", id |-> id, supplierId |-> 0, stock |-> 0,
                       ret |-> r.ret # <<>>, rows |-> 0]
    /\ UNCHANGED <<backend, session, reg, pc, req, resp>>

\* query strings: none, another customer's id, a status, both, and the id 0
QueryInputs ==
    {<<>>, [customerId |-> 4], [status |-> "pending"],
     [customerId |-> 4, status |-> "pending"], [customerId |-> 0]}

\* the repository is filled before the client's first request: the reads
\* change nothing, so what they answer does not depend on when they are made
Filling == req = NoRequest

NextView ==
    \/ Filling /\ counters.user <= MaxViewUsers /\ CallCreateUser("customer2", "customer")
    \/ \E u \in DOMAIN users : Filling /\ users[u].role = "customer" /\ CallCreateOrder(u)
    \/ \E o \in DOMAIN orders, p \in ProductTargets :
           Filling /\ counters.orderItem <= MaxViewItems /\ CallAddOrderItem(o, p, 1)
    \/ Filling /\ CallCreateProduct(1, 7)
    \/ Filling /\ CallUpdateOrder(1, [status |-> "shipped"])
    \/ \E u \in {"supplier", "customer"} : Login("c1", u, "password123")
    \/ \E query \in QueryInputs : GetOrders("c1", query)
    \/ \E o \in OrderTargets : GetOrder("c1", o)

SpecView == Init /\ [][NextView]_vars

\* a step that takes a request for one of the order views and answers it
ViewStep(route) == <<req, resp>>' # <<req, resp>> /\ req'.route = route

\* C11: to a supplier GET /api/orders answers exactly the orders that match
\* the query filters and have an item whose product the supplier supplies,
\* each with exactly its items of the supplier's products.
C11_SupplierOrderView ==
    [][(ViewStep("GET /api/orders") /\ resp'.status = 200
            /\ users[req'.user].role = "supplier") =>
          LET query == req'.body
              Supplied(k) == /\ orderItems[k].productId \in DOMAIN products
                             /\ products[orderItems[k].productId].supplierId = req'.user
              Matches(o) ==
                  /\ "customerId" \in DOMAIN query => orders[o].customerId = query.customerId
                  /\ "status" \in DOMAIN query => orders[o].status = query.status
              OwnItems(o) == {k \in DOMAIN orderItems : orderItems[k].orderId = o /\ Supplied(k)}
              expected == {o \in DOMAIN orders : Matches(o) /\ OwnItems(o) # {}}
              got == resp'.orders
          IN  /\ Len(got) = Cardinality(expected)
              /\ {got[i].id : i \in DOMAIN got} = expected
              /\ \A i \in DOMAIN got :
                    /\ Len(got[i].items) = Cardinality(OwnItems(got[i].id))
                    /\ {got[i].items[j].id : j \in DOMAIN got[i].items} = OwnItems(got[i].id)
                    /\ \A j \in DOMAIN got[i].items :
                          got[i].items[j] = orderItems[got[i].items[j].id]]_vars

\* C12: a customer is never answered an order of another customer: GET
\* /api/orders lists the caller's own orders whatever the query string
\* says, and GET /api/orders/:id answers 403 for another customer's order.
C12_CustomerSeesOwnOrders ==
    [][\A route \in {"GET /api/orders", "GET /api/orders/:id"} :
          (ViewStep(route) /\ req'.user \in DOMAIN users
                /\ users[req'.user].role = "customer") =>
             /\ "orders" \in DOMAIN resp' =>
                   \A i \in DOMAIN resp'.orders : resp'.orders[i].customerId = req'.user
             /\ (route = "GET /api/orders/:id" /\ req'.id \in DOMAIN orders
                    /\ orders[req'.id].customerId # req'.user) => resp'.status = 403]_vars

----------------------------------------------------------------------------
(* The catalog: direct calls of the product methods with products that     *)
(* carry comingSoon and releaseDate, patches and filters.  call keeps the  *)
(* argument (arg) and the value returned (out) of the last call.           *)

CatalogCall(op, id, arg, out) ==
    [op |-> op, id |-> id, supplierId |-> 0, stock |-> 0, ret |-> TRUE, rows |-> 0,
     arg |-> arg, out |-> out]

ProductInputs ==
    {[category |-> "hoodies", supplierId |-> 3, stock |-> 7, isActive |-> TRUE],
     [category |-> "t-shirts", supplierId |-> 2, stock |-> 0, isActive |-> FALSE,
      comingSoon |-> TRUE, releaseDate |-> "2026-01-01"]}

ProductPatches == {[stock |-> 7], [isActive |-> FALSE], [category |-> "hoodies", stock |-> 0]}

ProductFilters ==
    {<<>>, [category |-> "hoodies"], [supplierId |-> 2, isActive |-> TRUE],
     [isActive |-> FALSE], [comingSoon |-> TRUE]}

CatCreateProduct(product) ==
    /\ counters.product <= MaxProducts
    /\ LET r == createProduct(Store, product)
       IN  /\ SetStore(r.S)
           /\ call' = CatalogCall("createProduct", r.ret.id, product, r.ret)
    /\ UNCHANGED <<backend, session, reg, pc, req, resp>>

CatGetProduct(id) ==
    /\ call' = CatalogCall("getProduct", id, <<>>, getProduct(Store, id))
    /\ UNCHANGED <<backend, users, products, orders, orderItems, carts, supplierInventories,
                   reviews, counters, session, reg, pc, req, resp>>

CatGetProducts(filters) ==
    /\ call' = CatalogCall("getProducts", 0, filters, getProducts(Store, filters))
    /\ UNCHANGED <<backend, users, products, orders, orderItems, carts, supplierInventories,
                   reviews, counters, session, reg, pc, req, resp>>

CatUpdateProduct(id, product) ==
    /\ LET r == updateProduct(Store, id, product)
       IN  /\ SetStore(r.S)
           /\ call' = CatalogCall("updateProduct", id, product, r.ret)
    /\ UNCHANGED <<backend, session, reg, pc, req, resp>>

CatDeleteProduct(id) ==
    /\ LET r == deleteProduct(Store, id)
       IN  /\ SetStore(r.S)
           /\ call' = CatalogCall("deleteProduct", id, <<>>, r.ret)
    /\ UNCHANGED <<backend, session, reg, pc, req, resp>>

OrderPatches == {[status |-> "shipped"], [paymentStatus |-> "paid"]}

CatUpdateOrder(id, order) ==
    /\ LET r == updateOrder(Store, id, order)
       IN  /\ SetStore(r.S)
           /\ call' = CatalogCall("updateOrder", id, order, r.ret)
    /\ UNCHANGED <<backend, session, reg, pc, req, resp>>

NextCatalog ==
    \/ CallCreateOrder(3)
    \/ \E o \in OrderTargets, order \in OrderPatches : CatUpdateOrder(o, order)
    \/ \E product \in ProductInputs : CatCreateProduct(product)
    \/ \E p \in ProductTargets : CatGetProduct(p)
    \/ \E filters \in ProductFilters : CatGetProducts(filters)
    \/ \E p \in ProductTargets, product \in ProductPatches : CatUpdateProduct(p, product)
    \/ \E p \in ProductTargets : CatDeleteProduct(p)

SpecCatalog == Init /\ [][NextCatalog]_vars

\* a step that is a call of op (every call either changes the repository or
\* is recorded with its argument in call)
CatalogStep(op) == call'.op = op /\ "arg" \in DOMAIN call' /\ vars' # vars

\* C13: createProduct(data) returns a record with a generated id, and a later
\* getProduct(id) returns a record equal to data on every supplied field
\* (comingSoon and releaseDate included) and carrying that id.
C13_CreateThenGetProduct ==
    [][CatalogStep("createProduct") =>
          LET data == call'.arg
              id == call'.out.id
              got == getProduct(Store', id)
          IN  /\ id \notin DOMAIN products
              /\ got # <<>>
              /\ got[1].id = id
              /\ \A f \in DOMAIN data : f \in DOMAIN got[1] /\ got[1][f] = data[f]]_vars

\* C14: getProducts(filter) returns exactly the products that satisfy every
\* supplied filter among category, supplierId, isActive and comingSoon (a
\* filter that is not supplied constrains nothing), in insertion order.
C14_GetProductsFilters ==
    [][CatalogStep("getProducts") =>
          LET filters == call'.arg
              Satisfies(q) == \A f \in DOMAIN filters : Field(q, f) = <<filters[f]>>
              expected == SelectSeq(Rows(products), Satisfies)
              got == call'.out
          IN  /\ Len(got) = Len(expected)
              /\ \A i \in DOMAIN got : got[i].id = expected[i].id]_vars

\* C15: updateProduct(id, patch) and updateOrder(id, patch) are partial
\* merges: when the row exists every field named in the patch takes the patch
\* value, every other field keeps its value and every other row is unchanged;
\* when no row has that id the result is the absent value and the store is
\* unchanged.
C15_UpdateIsPartialMerge ==
    [][/\ CatalogStep("updateProduct") =>
             IF call'.id \in DOMAIN products
             THEN /\ Store' = [Store EXCEPT !.products[call'.id] = Spread(@, call'.arg)]
                  /\ call'.out = <<Store'.products[call'.id]>>
             ELSE call'.out = <<>> /\ Store' = Store
        /\ CatalogStep("updateOrder") =>
             IF call'.id \in DOMAIN orders
             THEN /\ Store' = [Store EXCEPT !.orders[call'.id] = Spread(@, call'.arg)]
                  /\ call'.out = <<Store'.orders[call'.id]>>
             ELSE call'.out = <<>> /\ Store' = Store]_vars

----------------------------------------------------------------------------
(* The upserts, one awaited statement at a time, for two callers.           *)
(* updateCart and updateInventory look the row up, await, and write; a     *)
(* second call may run between the two.  pc.calls holds each caller's call *)
(* in progress: where it is (at), its arguments and the row it found.      *)

Callers == {"t1", "t2"}

CallerIdle == [at |-> "idle"]

InProgress == IF "calls" \in DOMAIN pc THEN pc.calls ELSE [t \in Callers |-> CallerIdle]

SetInProgress(t, c) ==
    pc' = [op |-> pc.op, id |-> pc.id, items |-> pc.items,
           calls |-> [InProgress EXCEPT ![t] = c]]

\* the carts table as the specification describes it: userId is unique
CartsUserIdUnique == TRUE

\* the supplier_inventory table as the specification describes it: no
\* uniqueness is stated for the pair (supplierId, productId)
InventoryPairUnique == FALSE

\* updateCart up to its first await: the lookup (MemStorage: await
\* this.getCart(userId); DatabaseStorage: the awaited select)
UpdateCartLookup(t, userId, items) ==
    /\ InProgress[t] = CallerIdle
    /\ counters.cart <= MaxCarts
    /\ SetInProgress(t, [at |-> "cart", userId |-> userId, items |-> items,
                         found |-> getCart(Store, userId)])
    /\ UNCHANGED <<backend, tables, session, reg, call, req, resp>>

\* MemStorage.updateCart after the await: a new id and row when the lookup
\* found none, else the found row with the new items; carts.set(cart.id, cart)
MemCartWrite(S, c) ==
    IF c.found = <<>>
    THEN LET cart == [id |-> S.counters.cart, userId |-> c.userId, items |-> c.items]
         IN  [S |-> [S EXCEPT !.carts = Put(@, cart.id, cart), !.counters.cart = cart.id + 1],
              ret |-> <<cart>>]
    ELSE LET cart == [c.found[1] EXCEPT !.items = c.items]
         IN  [S |-> [S EXCEPT !.carts = Put(@, cart.id, cart)], ret |-> <<cart>>]

\* DatabaseStorage.updateCart after the select: insert when it found none
\* (refused by the table when a cart of the user exists by now), else update
\* where userId matches
DbCartWrite(S, c) ==
    IF c.found = <<>>
    THEN IF CartsUserIdUnique /\ getCart(S, c.userId) # <<>>
         THEN [S |-> S, ret |-> Throws]
         ELSE LET newCart == [id |-> S.counters.cart, userId |-> c.userId, items |-> c.items]
              IN  [S |-> [S EXCEPT !.carts = Put(@, newCart.id, newCart),
                                   !.counters.cart = newCart.id + 1],
                   ret |-> <<newCart>>]
    ELSE LET S1 == [S EXCEPT !.carts =
                        [k \in DOMAIN @ |-> IF @[k].userId = c.userId
                                            THEN [@[k] EXCEPT !.items = c.items]
                                            ELSE @[k]]]
         IN  [S |-> S1, ret |-> getCart(S1, c.userId)]

UpdateCartWrite(t) ==
    /\ InProgress[t].at = "cart"
    /\ LET r == IF backend = "mem" THEN MemCartWrite(Store, InProgress[t])
                ELSE DbCartWrite(Store, InProgress[t])
       IN  /\ SetStore(r.S)
           /\ call' = CatalogCall("updateCart", InProgress[t].userId, InProgress[t].items, r.ret)
    /\ SetInProgress(t, CallerIdle)
    /\ UNCHANGED <<backend, session, reg, req, resp>>

\* updateInventory up to its first await.  MemStorage finds the row and
\* writes it in one go (insert: done; update: the product write is still to
\* come, after await this.getProduct); DatabaseStorage awaits the select.
UpdateInventoryLookup(t, supplierId, productId, stock) ==
    /\ InProgress[t] = CallerIdle
    /\ counters.inventory <= MaxInventories
    /\ LET found == FirstKey(InventoryKeys(Store, supplierId, productId))
           args == [supplierId |-> supplierId, productId |-> productId, stock |-> stock,
                    found |-> found]
       IN  IF backend = "db"
           THEN /\ SetInProgress(t, Spread(args, [at |-> "inventory"]))
                /\ UNCHANGED <<tables, call>>
           ELSE IF found = <<>>
           THEN LET newInventory == NewInventory(Store, supplierId, productId, stock)
                IN  /\ SetStore(InsertInventory(Store, newInventory))
                    /\ call' = CatalogCall("updateInventory", productId, args, <<newInventory>>)
                    /\ SetInProgress(t, CallerIdle)
           ELSE LET updatedInventory ==
                        [supplierInventories[found[1]] EXCEPT !.availableStock = stock]
                IN  /\ SetStore([Store EXCEPT !.supplierInventories =
                                                  Put(@, found[1], updatedInventory)])
                    /\ call' = CatalogCall("updateInventory", productId, args,
                                           <<updatedInventory>>)
                    /\ SetInProgress(t, IF getProduct(Store, productId) # <<>>
                                        THEN Spread(args, [at |-> "product"])
                                        ELSE CallerIdle)
    /\ UNCHANGED <<backend, session, reg, req, resp>>

\* DatabaseStorage.updateInventory after the select: insert when it found no
\* row, else update where the pair matches
DbInventoryWrite(S, c) ==
    IF c.found = <<>>
    THEN IF InventoryPairUnique /\ InventoryKeys(S, c.supplierId, c.productId) # {}
         THEN [S |-> S, ret |-> Throws]
         ELSE LET newInventory == NewInventory(S, c.supplierId, c.productId, c.stock)
              IN  [S |-> InsertInventory(S, newInventory), ret |-> <<newInventory>>]
    ELSE LET hit == InventoryKeys(S, c.supplierId, c.productId)
             S1 == [S EXCEPT !.supplierInventories =
                        [k \in DOMAIN @ |-> IF k \in hit
                                            THEN [@[k] EXCEPT !.availableStock = c.stock]
                                            ELSE @[k]]]
         IN  [S |-> S1, ret |-> <<S1.supplierInventories[c.found[1]]>>]

UpdateInventoryWrite(t) ==
    /\ InProgress[t].at = "inventory"
    /\ LET r == DbInventoryWrite(Store, InProgress[t])
       IN  /\ SetStore(r.S)
           /\ call' = CatalogCall("updateInventory", InProgress[t].productId,
                                  InProgress[t], r.ret)
           /\ SetInProgress(t, IF r.ret = Throws THEN CallerIdle
                               ELSE [InProgress[t] EXCEPT !.at = "product"])
    /\ UNCHANGED <<backend, session, reg, req, resp>>

\* updateInventory, last statement: await this.updateProduct(productId, {stock})
UpdateInventoryProduct(t) ==
    /\ InProgress[t].at = "product"
    /\ SetStore(updateProduct(Store, InProgress[t].productId,
                              [stock |-> InProgress[t].stock]).S)
    /\ SetInProgress(t, CallerIdle)
    /\ UNCHANGED <<backend, session, reg, call, req, resp>>

CartUsers == {3}

CartItemLists == {<<>>, <<[productId |-> 1, quantity |-> 2]>>}

InventoryPairs == {<<2, 1>>, <<3, 1>>}

NextUpsert ==
    \/ \E t \in Callers, u \in CartUsers, items \in CartItemLists :
           UpdateCartLookup(t, u, items)
    \/ \E t \in Callers : UpdateCartWrite(t)
    \/ \E t \in Callers, sp \in InventoryPairs : UpdateInventoryLookup(t, sp[1], sp[2], 7)
    \/ \E t \in Callers : UpdateInventoryWrite(t)
    \/ \E t \in Callers : UpdateInventoryProduct(t)

SpecUpsert == Init /\ [][NextUpsert]_vars

\* C16: in every reachable state there is at most one cart per userId, for
\* any sequence of updateCart calls, two calls for the same user that
\* interleave between the lookup and the write included.
C16_OneCartPerUser ==
    \A a, b \in DOMAIN carts : carts[a].userId = carts[b].userId => a = b

\* C17: in every reachable state there is at most one SupplierInventory row
\* per (supplierId, productId) pair, for any sequence of updateInventory
\* calls, calls for the same pair that interleave between the existence check
\* and the insert included.
C17_OneInventoryRowPerPair ==
    \A a, b \in DOMAIN supplierInventories :
        (/\ supplierInventories[a].supplierId = supplierInventories[b].supplierId
         /\ supplierInventories[a].productId = supplierInventories[b].productId) => a = b

----------------------------------------------------------------------------
(* The derived reads of MemStorage: products ranked by mean review rating  *)
(* and by quantity sold.  DatabaseStorage implements Partial<IStorage> and *)
(* defines neither method.                                                 *)

RECURSIVE SumOver(_, _)
\* the sum of t[k] over the keys ks
SumOver(t, ks) ==
    IF ks = {} THEN 0
    ELSE LET k == Min(ks) IN t[k] + SumOver(t, ks \ {k})

\* reviewAverages.get(product.id): total and count of the product's ratings;
\* a product without a review has avgRating 0, written 0 / 1
AvgRating(S, productId) ==
    LET ks == {k \in DOMAIN S.reviews : S.reviews[k].productId = productId}
    IN  IF ks = {} THEN [total |-> 0, count |-> 1]
        ELSE [total |-> SumOver([k \in ks |-> S.reviews[k].rating], ks),
              count |-> Cardinality(ks)]

\* a.total / a.count > b.total / b.count
RatingAbove(a, b) == a.total * b.count > b.total * a.count

\* salesCount.get(product.id) || 0: the quantities of the product's order items
SalesCount(S, productId) ==
    LET ks == {k \in DOMAIN S.orderItems : S.orderItems[k].productId = productId}
    IN  SumOver([k \in ks |-> S.orderItems[k].quantity], ks)

\* Array.prototype.sort with the comparator (a, b) => b.score - a.score, score
\* being the sequence of the items' scores (total / count): the sort is
\* stable, so items that compare equal keep their order
SortDescending(s, score) ==
    LET n == Len(s)
        Ahead(k, j) == RatingAbove(score[k], score[j])
                       \/ (~RatingAbove(score[j], score[k]) /\ k < j)
        Place(j) == 1 + Cardinality({k \in 1..n : k # j /\ Ahead(k, j)})
    IN  [i \in 1..n |-> s[CHOOSE j \in 1..n : Place(j) = i]]

\* slice(0, limit) for limit >= 0
Slice(s, limit) == SubSeq(s, 1, IF limit < Len(s) THEN limit ELSE Len(s))

\* getTrendingProducts without .filter(item => item.product.isActive)
MemGetTrendingProducts_AnyProduct(S, limit) ==
    LET items == [i \in DOMAIN Rows(S.products) |->
                     [product |-> Rows(S.products)[i],
                      avgRating |-> AvgRating(S, Rows(S.products)[i].id)]]
        sorted == SortDescending(items, [i \in DOMAIN items |-> items[i].avgRating])
        top == Slice(sorted, limit)
    IN  [i \in DOMAIN top |-> top[i].product]

MemGetTrendingProducts(S, limit) ==
    LET items == [i \in DOMAIN Rows(S.products) |->
                     [product |-> Rows(S.products)[i],
                      avgRating |-> AvgRating(S, Rows(S.products)[i].id)]]
        Active(item) == item.product.isActive
        active == SelectSeq(items, Active)
        sorted == SortDescending(active, [i \in DOMAIN active |-> active[i].avgRating])
        top == Slice(sorted, limit)
    IN  [i \in DOMAIN top |-> top[i].product]

\* getTopSellingProducts counting the order items instead of adding up their
\* quantities (current + 1 for current + item.quantity)
MemGetTopSellingProducts_CountingItems(S, limit) ==
    LET ItemCount(productId) ==
            Cardinality({k \in DOMAIN S.orderItems : S.orderItems[k].productId = productId})
        items == [i \in DOMAIN Rows(S.products) |->
                     [product |-> Rows(S.products)[i],
                      salesCount |-> ItemCount(Rows(S.products)[i].id)]]
        Active(item) == item.product.isActive
        active == SelectSeq(items, Active)
        sorted == SortDescending(active, [i \in DOMAIN active |->
                                             [total |-> active[i].salesCount, count |-> 1]])
        top == Slice(sorted, limit)
    IN  [i \in DOMAIN top |-> top[i].product]

MemGetTopSellingProducts(S, limit) ==
    LET items == [i \in DOMAIN Rows(S.products) |->
                     [product |-> Rows(S.products)[i],
                      salesCount |-> SalesCount(S, Rows(S.products)[i].id)]]
        Active(item) == item.product.isActive
        active == SelectSeq(items, Active)
        sorted == SortDescending(active, [i \in DOMAIN active |->
                                             [total |-> active[i].salesCount, count |-> 1]])
        top == Slice(sorted, limit)
    IN  [i \in DOMAIN top |-> top[i].product]

ReviewInputs == {<<3, 1>>, <<3, 5>>, <<5, 5>>}

Limits == {1, 2, 4}

TrendTargets == {2} \cup NewProductIds

CatCreateReview(productId, rating) ==
    /\ counters.review <= MaxReviews
    /\ LET r == createReview(Store, [productId |-> productId, customerId |-> 3,
                                     rating |-> rating])
       IN  /\ SetStore(r.S)
           /\ call' = CatalogCall("createReview", r.ret.id, <<productId, rating>>, r.ret)
    /\ UNCHANGED <<backend, session, reg, pc, req, resp>>

CatGetTrendingProducts(limit) ==
    /\ call' = CatalogCall("getTrendingProducts", 0, limit, MemGetTrendingProducts(Store, limit))
    /\ UNCHANGED <<backend, tables, session, reg, pc, req, resp>>

\* the repository is a MemStorage
InitMem == Init /\ backend = "mem"

NextTrending ==
    \/ \E product \in ProductInputs : CatCreateProduct(product)
    \/ \E p \in TrendTargets : CatUpdateProduct(p, [isActive |-> FALSE])
    \/ \E pr \in ReviewInputs : CatCreateReview(pr[1], pr[2])
    \/ \E limit \in Limits : CatGetTrendingProducts(limit)

SpecTrending == InitMem /\ [][NextTrending]_vars

\* C20: getTrendingProducts(limit) returns at most limit products, every one
\* of them active whatever the reviews of the inactive ones, ordered by
\* descending mean review rating (a product with no review counts as 0), and
\* no active product left out has a strictly higher mean than a returned one.
C20_TrendingProducts ==
    call.op = "getTrendingProducts" =>
        LET got == call.out
            Mean(id) == AvgRating(Store, id)
            returned == {got[i].id : i \in DOMAIN got}
        IN  /\ Len(got) <= call.arg
            /\ \A i \in DOMAIN got :
                  /\ got[i].id \in DOMAIN products /\ got[i] = products[got[i].id]
                  /\ got[i].isActive
            /\ \A i, j \in DOMAIN got :
                  i < j => ~RatingAbove(Mean(got[j].id), Mean(got[i].id))
            /\ \A p \in DOMAIN products \ returned :
                  products[p].isActive =>
                      \A i \in DOMAIN got : ~RatingAbove(Mean(p), Mean(got[i].id))

\* a call that left an active product out while an inactive product whose
\* every review has five stars exists
C20_Witness ==
    /\ call.op = "getTrendingProducts"
    /\ Len(call.out) = call.arg
    /\ \E p \in DOMAIN products :
          /\ ~products[p].isActive
          /\ AvgRating(Store, p).total = 5 * AvgRating(Store, p).count
    /\ \E p \in DOMAIN products :
          products[p].isActive /\ \A i \in DOMAIN call.out : call.out[i].id # p

----------------------------------------------------------------------------
(* The routes that write an order's status: POST /api/orders,              *)
(* PUT /api/orders/:id, PATCH /api/orders/:id and                          *)
(* GET /api/payments/verify/:reference.                                    *)

validStatuses == {"pending", "processing", "shipped", "delivered", "cancelled"}

\* PUT /api/orders/:id hands req.body to updateOrder as it came
PutOrder(c, orderId, body) ==
    /\ req' = Request("PUT /api/orders/:id", c, orderId, body)
    /\ LET g == requireRole({"admin"}, c)
       IN  IF g # 0 THEN Denied(g)
           ELSE LET order == getOrder(Store, orderId)
                    r == updateOrder(Store, orderId, body)
                IN  /\ UNCHANGED session
                    /\ IF order = <<>>
                       THEN Respond(404, "Order not found", <<>>) /\ UNCHANGED tables
                       ELSE IF r.ret = Throws
                       THEN Respond(500, "Failed to update order", <<>>) /\ UNCHANGED tables
                       ELSE SetStore(r.S) /\ RespondOrders(200, r.ret)
    /\ UNCHANGED <<backend, reg, pc, call>>

\* a handler that hands updateOrder the body as it came
PatchOrder_RawBody(c, orderId, body) ==
    /\ req' = Request("PATCH /api/orders/:id", c, orderId, body)
    /\ LET g == requireRole({"admin", "supplier"}, c)
       IN  IF g # 0 THEN Denied(g)
           ELSE LET order == getOrder(Store, orderId)
                    orderUser == CurrentUser(c)[1]
                    orderItemRows == OrderItemRows(Store, orderId)
                    supplierProductIds == SupplierProductIds(Store, orderUser.id)
                    hasSupplierItems ==
                        \E i \in DOMAIN orderItemRows :
                            orderItemRows[i].productId \in supplierProductIds
                    r == updateOrder(Store, orderId, body)
                IN  /\ UNCHANGED session
                    /\ IF order = <<>>
                       THEN Respond(404, "Order not found", <<>>) /\ UNCHANGED tables
                       ELSE IF "status" \notin DOMAIN body \/ body.status = ""
                       THEN Respond(400, "Order status is required", <<>>) /\ UNCHANGED tables
                       ELSE IF body.status \notin validStatuses
                       THEN Respond(400, "Invalid order status", <<>>) /\ UNCHANGED tables
                       ELSE IF orderUser.role = "supplier" /\ ~hasSupplierItems
                       THEN /\ Respond(403, "You can only update orders containing your products",
                                       <<>>)
                            /\ UNCHANGED tables
                       ELSE SetStore(r.S) /\ RespondOrders(200, r.ret)
    /\ UNCHANGED <<backend, reg, pc, call>>

\* PATCH /api/orders/:id: 404, then the two status checks, then the
\* supplier's check, then updateOrder with the status alone
PatchOrder(c, orderId, body) ==
    /\ req' = Request("PATCH /api/orders/:id", c, orderId, body)
    /\ LET g == requireRole({"admin", "supplier"}, c)
       IN  IF g # 0 THEN Denied(g)
           ELSE LET order == getOrder(Store, orderId)
                    orderUser == CurrentUser(c)[1]
                    orderItemRows == OrderItemRows(Store, orderId)
                    supplierProductIds == SupplierProductIds(Store, orderUser.id)
                    hasSupplierItems ==
                        \E i \in DOMAIN orderItemRows :
                            orderItemRows[i].productId \in supplierProductIds
                    r == updateOrder(Store, orderId, [status |-> body.status])
                IN  /\ UNCHANGED session
                    /\ IF order = <<>>
                       THEN Respond(404, "Order not found", <<>>) /\ UNCHANGED tables
                       ELSE IF "status" \notin DOMAIN body \/ body.status = ""
                       THEN Respond(400, "Order status is required", <<>>) /\ UNCHANGED tables
                       ELSE IF body.status \notin validStatuses
                       THEN Respond(400, "Invalid order status", <<>>) /\ UNCHANGED tables
                       ELSE IF orderUser.role = "supplier" /\ ~hasSupplierItems
                       THEN /\ Respond(403, "You can only update orders containing your products",
                                       <<>>)
                            /\ UNCHANGED tables
                       ELSE SetStore(r.S) /\ RespondOrders(200, r.ret)
    /\ UNCHANGED <<backend, reg, pc, call>>

\* reference.match(/order_(\d+)_/): a reference is the sequence of its parts
\* between underscores, each a run of digits (Digits) or some other text
\* (Text); the match is the first part "order" followed by a part of
\* digits and one more underscore
Text(t) == [text |-> t, number |-> 0]

Digits(n) == [text |-> "", number |-> n]

ReferenceOrderId(reference) ==
    LET hits == {i \in 1..(Len(reference) - 2) :
                    reference[i] = Text("order") /\ reference[i + 1].text = ""}
    IN  IF hits = {} THEN <<>> ELSE <<reference[Min(hits) + 1].number>>

\* the route behind a guard that asks for a session
VerifyPayment_Guarded(c, reference) ==
    /\ req' = Request("GET /api/payments/verify/:reference", c, 0, reference)
    /\ IF ~isAuthenticated(c)
       THEN Denied(401)
       ELSE /\ LET orderId == ReferenceOrderId(reference)
                   order == IF orderId = <<>> THEN <<>> ELSE getOrder(Store, orderId[1])
               IN  IF order # <<>>
                   THEN LET r == updateOrder(Store, orderId[1],
                                             [paymentStatus |-> "paid", status |-> "processing"])
                        IN  SetStore(r.S)
                   ELSE UNCHANGED tables
            /\ Respond(200, "success", <<>>)
            /\ UNCHANGED session
    /\ UNCHANGED <<backend, reg, pc, call>>

\* the route is registered without a guard
VerifyPayment(c, reference) ==
    /\ req' = Request("GET /api/payments/verify/:reference", c, 0, reference)
    /\ LET orderId == ReferenceOrderId(reference)
           order == IF orderId = <<>> THEN <<>> ELSE getOrder(Store, orderId[1])
       IN  IF order # <<>>
           THEN LET r == updateOrder(Store, orderId[1],
                                     [paymentStatus |-> "paid", status |-> "processing"])
                IN  SetStore(r.S)
           ELSE UNCHANGED tables
    /\ Respond(200, "success", <<>>)
    /\ UNCHANGED <<backend, session, reg, pc, call>>

OrderBodies == {[status |-> "delivered"], [status |-> "refunded"], [paymentStatus |-> "paid"]}

References ==
    {<<Text("order"), Digits(1), Digits(1700)>>, <<Text("order"), Digits(1)>>,
     <<Text("ref"), Digits(1700)>>}

NextStatus ==
    \/ \E u \in DemoNames : Login("c1", u, "password123")
    \/ PostOrders("c1", <<[productId |-> 1, quantity |-> 3]>>)
    \/ \E o \in OrderTargets, body \in OrderBodies : PutOrder("c1", o, body)
    \/ \E o \in OrderTargets, body \in OrderBodies : PatchOrder("c1", o, body)
    \/ \E reference \in References : VerifyPayment("c1", reference)

SpecStatus == Init /\ [][NextStatus]_vars

\* C19: in every reachable state every order's status is one of pending,
\* processing, shipped, delivered, cancelled, after any sequence of order
\* creations, PUT /api/orders/:id, PATCH /api/orders/:id and payment
\* verification requests.
C19_OrderStatusValid ==
    \A o \in DOMAIN orders : orders[o].status \in validStatuses

----------------------------------------------------------------------------
(* The two repositories side by side: every call is made on a MemStorage   *)
(* and on a DatabaseStorage that started from the same rows; call.mem and  *)
(* call.db hold what each returned and the rows each is left with.         *)

\* DatabaseStorage has no getTrendingProducts and no getTopSellingProducts:
\* the call is a TypeError
DbGetTrendingProducts(S, limit) == Throws

DbGetTopSellingProducts(S, limit) == Throws

\* products as a caller compares them: a product without comingSoon or
\* releaseDate reads like one with the defaults
Seen(ps) == [i \in DOMAIN ps |-> Spread(DbProductDefaults, ps[i])]

Unchanged(S, ret) == [S |-> S, ret |-> ret]

\* the method o.op of implementation b called on the rows S
Apply(b, S, o) ==
    CASE o.op = "createProduct" ->
            LET r == IF b = "mem" THEN MemCreateProduct(S, o.product)
                     ELSE DbCreateProduct(S, o.product)
            IN  [S |-> r.S, ret |-> Seen(<<r.ret>>)]
      [] o.op = "getProduct" ->
            Unchanged(S, Seen(IF b = "mem" THEN MemGetProduct(S, o.id) ELSE DbGetProduct(S, o.id)))
      [] o.op = "getProducts" ->
            Unchanged(S, Seen(IF b = "mem" THEN MemGetProducts(S, o.filters)
                              ELSE DbGetProducts(S, o.filters)))
      [] o.op = "updateProduct" ->
            LET r == IF b = "mem" THEN MemUpdateProduct(S, o.id, o.product)
                     ELSE DbUpdateProduct(S, o.id, o.product)
            IN  [S |-> r.S, ret |-> Seen(r.ret)]
      [] o.op = "deleteProduct" ->
            IF b = "mem" THEN MemDeleteProduct(S, o.id) ELSE DbDeleteProduct(S, o.id)
      [] o.op = "updateInventory" ->
            IF b = "mem" THEN MemUpdateInventory(S, o.supplierId, o.productId, o.stock)
            ELSE DbUpdateInventory(S, o.supplierId, o.productId, o.stock)
      [] o.op = "createReview" -> createReview(S, o.review)
      [] o.op = "getTrendingProducts" ->
            Unchanged(S, Seen(IF b = "mem" THEN MemGetTrendingProducts(S, o.limit)
                              ELSE DbGetTrendingProducts(S, o.limit)))
      [] o.op = "getTopSellingProducts" ->
            Unchanged(S, Seen(IF b = "mem" THEN MemGetTopSellingProducts(S, o.limit)
                              ELSE DbGetTopSellingProducts(S, o.limit)))

\* the rows each repository holds: the ones the last call left, or the
\* initial ones
RowsOf(b) == IF b \in DOMAIN call THEN call[b].S ELSE Store

RepositoryCalls ==
    {[op |-> "createProduct", product |-> product] : product \in ProductInputs}
    \cup {[op |-> "getProduct", id |-> id] : id \in ProductTargets}
    \cup {[op |-> "getProducts", filters |-> filters] :
             filters \in {<<>>, [supplierId |-> 2, isActive |-> TRUE]}}
    \cup {[op |-> "updateProduct", id |-> 1, product |-> product] :
             product \in {[stock |-> 7], [isActive |-> FALSE]}}
    \cup {[op |-> "deleteProduct", id |-> id] : id \in ProductTargets}
    \cup {[op |-> "updateInventory", supplierId |-> sp[1], productId |-> sp[2], stock |-> 7] :
             sp \in InventoryPairs}
    \cup {[op |-> "createReview", review |-> [productId |-> 3, customerId |-> 3, rating |-> 5]]}
    \cup {[op |-> "getTrendingProducts", limit |-> 2],
          [op |-> "getTopSellingProducts", limit |-> 2]}

\* the counters of both repositories stay within the bounds
WithinBounds(S) ==
    /\ S.counters.product <= MaxProducts + 1
    /\ S.counters.inventory <= MaxInventories + 1
    /\ S.counters.review <= MaxReviews + 1

RepositoryCall(o) ==
    /\ LET mem == Apply("mem", RowsOf("mem"), o)
           db == Apply("db", RowsOf("db"), o)
       IN  /\ WithinBounds(mem.S) /\ WithinBounds(db.S)
           /\ SetStore(IF backend = "mem" THEN mem.S ELSE db.S)
           /\ call' = Spread(CatalogCall(o.op, 0, o, <<>>), [mem |-> mem, db |-> db])
    /\ UNCHANGED <<backend, session, reg, pc, req, resp>>

NextRefine == \E o \in RepositoryCalls : RepositoryCall(o)

SpecRefine == Init /\ [][NextRefine]_vars

\* the products, inventory rows and reviews a caller can read
Visible(S) ==
    [products |-> [id \in DOMAIN S.products |-> Spread(DbProductDefaults, S.products[id])],
     supplierInventories |-> S.supplierInventories,
     reviews |-> S.reviews]

\* C18: the in-memory and the persistent repository are behaviourally
\* equivalent: after every sequence of repository calls (create, update,
\* delete and get of products, updateInventory, createReview, deleteProduct,
\* getTrendingProducts, getTopSellingProducts) both have returned the same
\* results and hold the same visible products, inventory rows and reviews.
C18_RepositoriesEquivalent ==
    "mem" \in DOMAIN call =>
        /\ call.mem.ret = call.db.ret
        /\ Visible(call.mem.S) = Visible(call.db.S)

----------------------------------------------------------------------------
(* MemStorage.getTopSellingProducts over order items of several            *)
(* quantities.                                                             *)

CatGetTopSellingProducts(limit) ==
    /\ call' = CatalogCall("getTopSellingProducts", 0, limit,
                           MemGetTopSellingProducts(Store, limit))
    /\ UNCHANGED <<backend, tables, session, reg, pc, req, resp>>

SoldProducts == {1, 2}

SoldQuantities == {1, 3}

NextSelling ==
    \/ \E p \in SoldProducts, q \in SoldQuantities : CallAddOrderItem(1, p, q)
    \/ \E p \in TrendTargets : CatUpdateProduct(p, [isActive |-> FALSE])
    \/ \E limit \in Limits : CatGetTopSellingProducts(limit)

SpecSelling == InitMem /\ [][NextSelling]_vars

----------------------------------------------------------------------------
(* The review methods: createReview with and without a customerId,         *)
(* deleteReview and getTopReviews.                                         *)

\* getTopReviews without the sort
MemGetTopReviews_Unsorted(S, limit) == Slice(Rows(S.reviews), limit)

\* MemStorage.getTopReviews: the stable sort by rating, then slice(0, limit)
MemGetTopReviews(S, limit) ==
    LET all == Rows(S.reviews)
    IN  Slice(SortDescending(all, [i \in DOMAIN all |-> [total |-> all[i].rating, count |-> 1]]),
              limit)

\* DatabaseStorage.getTopReviews: ORDER BY rating DESC LIMIT limit.  The
\* order among rows of equal rating is the database's choice, so the value
\* is the set of the results it may give: each next row is any row of the
\* highest rating among those left.
RECURSIVE DbGetTopReviews(_, _, _)
DbGetTopReviews(S, ks, limit) ==
    IF limit = 0 \/ ks = {} THEN {<<>>}
    ELSE LET best == {k \in ks : \A j \in ks : S.reviews[j].rating <= S.reviews[k].rating}
         IN  UNION {{<<S.reviews[k]>> \o rest : rest \in DbGetTopReviews(S, ks \ {k}, limit - 1)} :
                       k \in best}

\* a customer's review, one with customerId 0, one with a negative customerId
\* and one without a customerId
ReviewRecords ==
    {[productId |-> 3, rating |-> 3, customerId |-> 3],
     [productId |-> 3, rating |-> 2, customerId |-> 0],
     [productId |-> 3, rating |-> 2, customerId |-> -1],
     [productId |-> 3, rating |-> 3]}

TopLimits == {0, 2, 9}

CatCreateReviewRecord(review) ==
    /\ counters.review <= MaxReviews
    /\ LET r == createReview(Store, review)
       IN  /\ SetStore(r.S)
           /\ call' = CatalogCall("createReview", r.ret.id, review, r.ret)
    /\ UNCHANGED <<backend, session, reg, pc, req, resp>>

CatDeleteReview(id) ==
    /\ LET r == deleteReview(Store, id)
       IN  /\ SetStore(r.S)
           /\ call' = CatalogCall("deleteReview", id, <<>>, r.ret)
    /\ UNCHANGED <<backend, session, reg, pc, req, resp>>

CatGetTopReviews(limit) ==
    /\ \E out \in IF backend = "mem" THEN {MemGetTopReviews(Store, limit)}
                   ELSE DbGetTopReviews(Store, DOMAIN reviews, limit) :
           call' = CatalogCall("getTopReviews", 0, limit, out)
    /\ UNCHANGED <<backend, tables, session, reg, pc, req, resp>>

NextReviews ==
    \/ \E review \in ReviewRecords : CatCreateReviewRecord(review)
    \/ \E id \in {4, 5} : CatDeleteReview(id)
    \/ \E limit \in TopLimits : CatGetTopReviews(limit)

SpecReviews == Init /\ [][NextReviews]_vars

\* C22: getTopReviews(limit) returns min(limit, number of reviews) reviews in
\* non-increasing rating order, and every review left out has a rating no
\* higher than the lowest returned rating (ratings 5, 3, 4, 5, 2 with limit 2
\* give exactly the two rating-5 reviews).
C22_TopReviews ==
    call.op = "getTopReviews" =>
        LET got == call.out
            n == Cardinality(DOMAIN reviews)
            returned == {got[i].id : i \in DOMAIN got}
        IN  /\ Len(got) = IF call.arg < n THEN call.arg ELSE n
            /\ Cardinality(returned) = Len(got)
            /\ \A i \in DOMAIN got :
                  got[i].id \in DOMAIN reviews /\ got[i] = reviews[got[i].id]
            /\ \A i, j \in DOMAIN got : i < j => got[i].rating >= got[j].rating
            /\ \A k \in DOMAIN reviews \ returned :
                  \A i \in DOMAIN got : reviews[k].rating <= got[i].rating

\* five reviews with ratings 5, 5, 4, 3, 2 and limit 2: the two rating-5
\* reviews are returned
C22_Witness ==
    /\ call.op = "getTopReviews"
    /\ call.arg = 2
    /\ Cardinality(DOMAIN reviews) = 5
    /\ \A r \in {2, 3, 4} : Cardinality({k \in DOMAIN reviews : reviews[k].rating = r}) = 1
    /\ Cardinality({k \in DOMAIN reviews : reviews[k].rating = 5}) = 2
    /\ Len(call.out) = 2
    /\ call.out[1].rating = 5 /\ call.out[2].rating = 5

\* C23: a review submitted to createReview with customerId <= 0, or with no
\* customerId, is stored and returned with customerId null; with
\* customerId > 0 the stored customerId is the supplied one.
C23_ReviewCustomerId ==
    [][CatalogStep("createReview") =>
          LET supplied == Field(call'.arg, "customerId")
              id == call'.out.id
              expected == IF supplied # <<>> /\ supplied[1] > 0 THEN supplied ELSE <<>>
          IN  /\ id \in DOMAIN reviews' /\ id \notin DOMAIN reviews
              /\ reviews'[id].customerId = expected
              /\ call'.out.customerId = expected
              /\ reviews'[id].rating = call'.arg.rating]_vars

\* reviews stored with null for a supplied 0, a supplied -1 and a missing
\* customerId, next to one stored with the customer's id
C23_Witness ==
    /\ call.op = "createReview"
    /\ Field(call.arg, "customerId") \in {<<0>>, <<-1>>, <<>>}
    /\ reviews[call.out.id].customerId = <<>>
    /\ \E k \in DOMAIN reviews : k > 5 /\ reviews[k].customerId = <<3>>

----------------------------------------------------------------------------
(* POST /api/orders, one awaited statement at a time, for two clients.     *)
(* pc.placing holds each client's request in progress: where it is (at),   *)
(* the order it created, the item it is at (i), the product it read and    *)
(* the stock it computed.  Another request may run between any two awaits. *)

Placing == IF "placing" \in DOMAIN pc THEN pc.placing ELSE [c \in Clients |-> CallerIdle]

SetPlacing(c, r) ==
    pc' = [op |-> pc.op, id |-> pc.id, items |-> pc.items,
           placing |-> [Placing EXCEPT ![c] = r]]

\* a decrement taken from the product row as it is when the write is made
newStock_FromCurrentRow(S, product, item) ==
    Max2(0, S.products[product.id].stock - item.quantity)

\* const newStock = Math.max(0, product.stock - item.quantity), product
\* being the row getProduct returned
newStock(S, product, item) == Max2(0, product.stock - item.quantity)

\* the request arrives: the guard, insertOrderSchema.parse, await createOrder
PlaceOrderStart(c, items) ==
    /\ Placing[c] = CallerIdle
    /\ counters.order <= MaxOrders
    /\ req' = Request("POST /api/orders", c, 0, [items |-> items])
    /\ LET g == Guard("POST /api/orders", c)
       IN  IF g # 0 THEN Denied(g) /\ UNCHANGED pc
           ELSE LET createOrderUser == CurrentUser(c)[1]
                    r == createOrder(Store, [customerId |-> createOrderUser.id,
                                             status |-> "pending", paymentStatus |-> "pending"])
                IN  /\ SetStore(r.S)
                    /\ SetPlacing(c, [at |-> IF items = <<>> THEN "cart" ELSE "item",
                                      userId |-> createOrderUser.id, orderId |-> r.ret.id,
                                      items |-> items, i |-> 1])
                    /\ UNCHANGED <<session, resp>>
    /\ UNCHANGED <<backend, reg, call>>

\* where the loop goes after item i
AfterItem(p) ==
    [at |-> IF p.i = Len(p.items) THEN "cart" ELSE "item", userId |-> p.userId,
     orderId |-> p.orderId, items |-> p.items, i |-> IF p.i = Len(p.items) THEN p.i ELSE p.i + 1]

\* the next awaited statement of client c's request
PlaceOrderStep(c) ==
    LET p == Placing[c]
        item == p.items[p.i]
    IN  /\ p.at # "idle"
        /\ CASE p.at = "item" ->
                  \* insertOrderItemSchema.parse; await addOrderItem(orderItemData)
                  IF ~insertOrderItemSchema(item)
                  THEN /\ SetPlacing(c, CallerIdle)
                       /\ resp' = [route |-> "POST /api/orders", client |-> c,
                                   status |-> 400, message |-> "Validation failed",
                                   users |-> <<>>, handled |-> TRUE]
                       /\ UNCHANGED tables
                  ELSE /\ SetStore(addOrderItem(Store, Spread(item, [orderId |-> p.orderId])).S)
                       /\ SetPlacing(c, [p EXCEPT !.at = "read"])
                       /\ UNCHANGED resp
             [] p.at = "read" ->
                  \* const product = await getProduct(item.productId)
                  LET product == getProduct(Store, item.productId)
                  IN  /\ SetPlacing(c, IF product = <<>> THEN AfterItem(p)
                                       ELSE Spread(p, [at |-> "write", product |-> product[1]]))
                      /\ UNCHANGED <<tables, resp>>
             [] p.at = "write" ->
                  \* await updateProduct(item.productId, { stock: newStock })
                  LET stock == newStock(Store, p.product, item)
                  IN  /\ SetStore(updateProduct(Store, item.productId, [stock |-> stock]).S)
                      /\ SetPlacing(c, Spread(p, [at |-> "inventory", stock |-> stock,
                                                  supplierId |-> p.product.supplierId,
                                                  productId |-> p.product.id]))
                      /\ UNCHANGED resp
             [] p.at = "inventory" ->
                  \* updateInventory: MemStorage finds and writes the row at
                  \* once, DatabaseStorage awaits its select
                  LET found == FirstKey(InventoryKeys(Store, p.supplierId, p.productId))
                  IN  IF backend = "db"
                      THEN /\ SetPlacing(c, Spread(p, [at |-> "row", found |-> found]))
                           /\ UNCHANGED <<tables, resp>>
                      ELSE IF found = <<>>
                      THEN /\ SetStore(InsertInventory(Store,
                                  NewInventory(Store, p.supplierId, p.productId, p.stock)))
                           /\ SetPlacing(c, AfterItem(p))
                           /\ UNCHANGED resp
                      ELSE /\ SetStore([Store EXCEPT !.supplierInventories = Put(@, found[1],
                                      [@[found[1]] EXCEPT !.availableStock = p.stock])])
                           /\ SetPlacing(c, IF getProduct(Store, p.productId) # <<>>
                                            THEN [p EXCEPT !.at = "sync"] ELSE AfterItem(p))
                           /\ UNCHANGED resp
             [] p.at = "row" ->
                  \* DatabaseStorage.updateInventory: the insert or the update
                  LET r == DbInventoryWrite(Store, p)
                  IN  /\ SetStore(r.S)
                      /\ IF r.ret = Throws
                         THEN /\ SetPlacing(c, CallerIdle)
                              /\ resp' = [route |-> "POST /api/orders", client |-> c,
                                          status |-> 500, message |-> "Internal server error",
                                          users |-> <<>>, handled |-> TRUE]
                         ELSE /\ SetPlacing(c, [p EXCEPT !.at = "sync"])
                              /\ UNCHANGED resp
             [] p.at = "sync" ->
                  \* updateInventory: await this.updateProduct(productId, { stock })
                  /\ SetStore(updateProduct(Store, p.productId, [stock |-> p.stock]).S)
                  /\ SetPlacing(c, AfterItem(p))
                  /\ UNCHANGED resp
             [] p.at = "cart" ->
                  \* await updateCart(cartUser.id, []); res.status(201)
                  /\ SetStore(updateCart(Store, p.userId, <<>>).S)
                  /\ SetPlacing(c, CallerIdle)
                  /\ resp' = [route |-> "POST /api/orders", client |-> c, status |-> 201,
                              message |-> "", users |-> <<>>, handled |-> TRUE]
        /\ UNCHANGED <<backend, session, reg, call, req>>

PlaceQuantities == {2, 3}

NextPlace ==
    \/ \E c \in Clients : Login(c, "customer", "password123")
    \/ \E c \in Clients, q \in PlaceQuantities :
          PlaceOrderStart(c, <<[productId |-> 1, quantity |-> q]>>)
    \/ \E c \in Clients : PlaceOrderStep(c)

SpecPlace == Init /\ [][NextPlace]_vars

\* client c's request writes the product row in this step
PlaceWrites(c) == Placing[c].at = "write" /\ Placing'[c].at = "inventory"

\* C24: order placement is not atomic.  The stock a request writes is the
\* stock it read before its awaits less its own quantity, whatever another
\* request wrote to the product in between, so that two concurrent requests
\* for one product can lose a decrement and leave the product's stock
\* different from the inventory row's availableStock (C24_Witness).
C24_PlacementNotAtomic ==
    [][\A c \in Clients :
          PlaceWrites(c) =>
              LET p == Placing[c]
                  item == p.items[p.i]
              IN  /\ products'[item.productId].stock
                        = Max2(0, p.product.stock - item.quantity)
                  /\ supplierInventories' = supplierInventories]_vars

\* both requests are answered, one decrement is lost and the product's stock
\* is not the inventory row's availableStock
C24_Witness ==
    /\ \A c \in Clients : Placing[c] = CallerIdle
    /\ resp.route = "POST /api/orders" /\ resp.status = 201
    /\ DOMAIN orders = {1, 2} /\ DOMAIN orderItems = {1, 2}
    /\ 100 >= orderItems[1].quantity + orderItems[2].quantity
    /\ products[1].stock > 100 - orderItems[1].quantity - orderItems[2].quantity
    /\ products[1].stock # supplierInventories[1].availableStock

----------------------------------------------------------------------------
(* POST /api/orders with line items the schema rejects, by a customer with *)
(* a cart.                                                                 *)

ItemA == [productId |-> 1, quantity |-> 3]

ItemB == [productId |-> 2, quantity |-> 2]

NoQuantity == [productId |-> 1]

NoProduct == [quantity |-> 2]

PartialItemLists ==
    {<<NoQuantity>>, <<NoProduct, ItemA>>, <<ItemA, NoQuantity>>, <<ItemB, NoProduct>>,
     <<ItemA, NoQuantity, ItemB>>, <<ItemA, ItemB, NoQuantity>>, <<ItemA, ItemA, NoProduct>>,
     <<ItemA>>, <<ItemA, ItemB>>}

NextPartial ==
    \/ \E u \in {"supplier", "customer"} : Login("c1", u, "password123")
    \/ \E items \in {CartInput, <<ItemB>>} : PutCart("c1", items)
    \/ \E items \in PartialItemLists : PostOrders("c1", items)

SpecPartial == Init /\ [][NextPartial]_vars

\* C25: when the k-th line item of a POST /api/orders request is the first
\* the schema rejects, the answer is 400 and nothing is rolled back: the
\* order row is there, the first k-1 line items are stored with their stock
\* and inventory decrements, no later item is stored or taken from stock, and
\* the carts are as they were.
C25_PartialOrderKept ==
    [][(req'.route = "POST /api/orders" /\ resp'.handled
            /\ FirstInvalid(req'.body.items) # 0) =>
          LET items == req'.body.items
              k == FirstInvalid(items)
              applied == SubSeq(items, 1, k - 1)
              id == counters.order
              first == counters.orderItem
          IN  /\ resp'.status = 400
              /\ DOMAIN orders' = DOMAIN orders \cup {id}
              /\ orders'[id].customerId = req'.user
              /\ DOMAIN orderItems' = DOMAIN orderItems \cup (first .. first + k - 2)
              /\ \A j \in 1 .. k - 1 :
                    /\ orderItems'[first + j - 1].orderId = id
                    /\ orderItems'[first + j - 1].productId = items[j].productId
                    /\ orderItems'[first + j - 1].quantity = items[j].quantity
              /\ \A p \in DOMAIN products :
                    /\ products'[p].stock = StockAfter(products[p].stock, applied, p)
                    /\ \A i \in InventoryKeys(Store', products[p].supplierId, p) :
                          supplierInventories'[i].availableStock =
                              IF \E j \in 1 .. k - 1 : items[j].productId = p
                              THEN products'[p].stock
                              ELSE supplierInventories[i].availableStock
              /\ DOMAIN supplierInventories' = DOMAIN supplierInventories
              /\ carts' = carts]_vars

\* the third line item was rejected: the answer is 400, the order and its two
\* items are stored, both products' stock is lowered and the cart is kept
C25_Witness ==
    /\ req.route = "POST /api/orders" /\ resp.status = 400
    /\ req.body.items = <<ItemA, ItemB, NoQuantity>>
    /\ 1 \in DOMAIN orders
    /\ DOMAIN orderItems = {1, 2}
    /\ products[1].stock = 97 /\ products[2].stock = 78
    /\ supplierInventories[1].availableStock = 97
    /\ getCart(Store, req.user) # <<>> /\ getCart(Store, req.user)[1].items # <<>>

----------------------------------------------------------------------------
(* PUT /api/products/:id by the admin and by the supplier, on a product    *)
(* with an inventory row and on one without.                               *)

StockBodies ==
    {[stock |-> 7], [category |-> "hoodies"], [isActive |-> FALSE],
     [stock |-> 5, supplierId |-> 3]}

\* product 1 has an inventory row, product 5 is created without one
StockTargets == {1, 5}

NextStock ==
    \/ \E u \in {"admin", "supplier"} : Login("c1", u, "password123")
    \/ CallCreateProduct(2, 0)
    \/ \E p \in StockTargets, body \in StockBodies : PutProduct("c1", p, body)

SpecStock == Init /\ [][NextStock]_vars

\* a step that handles a request for the route: the direct repository calls
\* leave req alone and record themselves in call
RouteStep(route) == req'.route = route /\ call' = call

----------------------------------------------------------------------------
(* The supplier's requests on its own products and on a product of another *)
(* owner (product 5, created for user 3 by the admin or directly).         *)

OwnerBodies == {[stock |-> 7], [supplierId |-> 2, category |-> "hoodies"]}

NewProductBodies ==
    {[supplierId |-> 3, stock |-> 10, isActive |-> TRUE, category |-> "hoodies"],
     [supplierId |-> 1, stock |-> 0, isActive |-> TRUE, category |-> "t-shirts"]}

NextOwner ==
    \/ \E u \in {"admin", "supplier"} : Login("c1", u, "password123")
    \/ CallCreateProduct(3, 10)
    \/ \E body \in NewProductBodies : PostProducts("c1", body)
    \/ \E body \in NewProductBodies : PostComingSoon("c1", body)
    \/ \E p \in StockTargets, body \in OwnerBodies : PutProduct("c1", p, body)
    \/ \E p \in StockTargets, n \in ApiStockInputs : PutInventory("c1", p, n)

SpecOwner == Init /\ [][NextOwner]_vars

\* a step that handles a request of a logged-in supplier
SupplierStep ==
    /\ call' = call
    /\ req'.user \in DOMAIN users /\ users[req'.user].role = "supplier"
    /\ req'.route # "POST /api/login"

\* the request addresses an existing product that is not the supplier's
OnForeignProduct ==
    /\ req'.id \in DOMAIN products
    /\ products[req'.id].supplierId # req'.user

\* no product and no inventory row of another owner changes
ForeignUntouched ==
    /\ \A p \in DOMAIN products :
          products[p].supplierId # req'.user =>
              p \in DOMAIN products' /\ products'[p] = products[p]
    /\ \A k \in DOMAIN supplierInventories :
          supplierInventories[k].supplierId # req'.user =>
              /\ k \in DOMAIN supplierInventories'
              /\ supplierInventories'[k] = supplierInventories[k]

\* what the supplier creates is stored as the supplier's
CreatedAsOwn ==
    (req'.route \in {"POST /api/products", "POST /api/products/coming-soon"}
        /\ resp'.status = 201) =>
        /\ DOMAIN products' = DOMAIN products \cup {counters.product}
        /\ products'[counters.product].supplierId = req'.user

\* C27: no request of a supplier S changes a product or an inventory row of
\* another owner: PUT /api/products/:id and PUT /api/inventory/:productId on
\* a product that is not S's answer 403 and leave the store unchanged, and a
\* product S creates is stored with supplierId S whatever the body says.
C27_SupplierIsolation ==
    [][SupplierStep =>
          /\ ForeignUntouched
          /\ CreatedAsOwn
          /\ (req'.route \in {"PUT /api/products/:id", "PUT /api/inventory/:productId"}
                 /\ OnForeignProduct) =>
                 resp'.status = 403 /\ tables' = tables]_vars

\* C27, amended: as above, except that PUT /api/inventory/:productId with a
\* negative stock is answered 400 before the product is looked at; the store
\* is unchanged then too.
C27_SupplierIsolationAmended ==
    [][SupplierStep =>
          /\ ForeignUntouched
          /\ CreatedAsOwn
          /\ (req'.route = "PUT /api/products/:id" /\ OnForeignProduct) =>
                 resp'.status = 403 /\ tables' = tables
          /\ (req'.route = "PUT /api/inventory/:productId" /\ OnForeignProduct) =>
                 /\ resp'.status = IF req'.body.stock < 0 THEN 400 ELSE 403
                 /\ tables' = tables]_vars

\* supplier 2 asked for stock 10 on product 5 of user 3: 403, and the product
\* and its inventory row are as the admin created them
C27_Witness ==
    /\ req.route = "PUT /api/inventory/:productId" /\ req.user = 2 /\ req.id = 5
    /\ req.body.stock = 10
    /\ resp.status = 403
    /\ products[5].supplierId = 3 /\ products[5].stock = 10
    /\ \E k \in InventoryKeys(Store, 3, 5) : supplierInventories[k].availableStock = 10
    /\ InventoryKeys(Store, 2, 5) = {}

----------------------------------------------------------------------------
(* PATCH /api/orders/:id by each role, on an order with an item of the     *)
(* supplier's product 1, on one with an item of product 5 of user 3, and   *)
(* on an order that does not exist.                                        *)

PatchBodies ==
    {[status |-> "delivered"], [status |-> "refunded"], [status |-> ""],
     [paymentStatus |-> "paid"], [status |-> "shipped", paymentStatus |-> "paid"]}

NextPatch ==
    \/ \E u \in DemoNames : Login("c1", u, "password123")
    \/ CallCreateProduct(3, 10)
    \/ \E p \in ProductTargets : PostOrders("c1", <<[productId |-> p, quantity |-> 3]>>)
    \/ \E o \in OrderTargets, body \in PatchBodies : PatchOrder("c1", o, body)

SpecPatch == Init /\ [][NextPatch]_vars

\* C28: PATCH /api/orders/:id changes at most the status of the addressed
\* order: an unknown order is answered 404, a known order with a missing
\* status or one outside the five values 400, and a supplier none of whose
\* products is among the order's items 403, and then no order changes.
C28_PatchChangesStatusOnly ==
    [][(RouteStep("PATCH /api/orders/:id") /\ resp'.handled) =>
          LET id == req'.id
              body == req'.body
              known == id \in DOMAIN orders
              bad == "status" \notin DOMAIN body \/ body.status \notin validStatuses
              foreign ==
                  /\ users[req'.user].role = "supplier"
                  /\ ~\E k \in DOMAIN orderItems :
                         /\ orderItems[k].orderId = id
                         /\ orderItems[k].productId \in DOMAIN products
                         /\ products[orderItems[k].productId].supplierId = req'.user
          IN  /\ ~known => resp'.status = 404
              /\ (known /\ bad) => resp'.status = 400
              /\ (known /\ ~bad /\ foreign) => resp'.status = 403
              /\ resp'.status \in {400, 403, 404} => orders' = orders
              /\ DOMAIN orders' = DOMAIN orders
              /\ \A o \in DOMAIN orders :
                    IF o = id
                    THEN Without(orders'[o], "status") = Without(orders[o], "status")
                    ELSE orders'[o] = orders[o]
              /\ UNCHANGED <<users, products, orderItems, carts, supplierInventories,
                             reviews>>]_vars

\* supplier 2 asked for "delivered" on order 1, whose item is product 5 of
\* user 3: 403, and the order is still pending
C28_Witness ==
    /\ req.route = "PATCH /api/orders/:id" /\ req.user = 2 /\ req.id = 1
    /\ req.body = [status |-> "delivered"]
    /\ resp.status = 403
    /\ 5 \in DOMAIN products /\ products[5].supplierId = 3
    /\ \A k \in DOMAIN orderItems : orderItems[k].productId = 5
    /\ orders[1].status = "pending"

----------------------------------------------------------------------------
(* GET /api/payments/verify/:reference by a client with a session (c1) and *)
(* by one without (c2), on an order in each of several statuses.           *)

VerifyReferences ==
    {<<Text("order"), Digits(1), Digits(1700)>>, <<Text("order"), Digits(2), Digits(1700)>>,
     <<Text("order"), Digits(1)>>, <<Text("ref"), Digits(1700)>>,
     <<Text("order"), Digits(2), Text("order"), Digits(1), Digits(1700)>>}

NextVerify ==
    \/ \E u \in DemoNames : Login("c1", u, "password123")
    \/ PostOrders("c1", <<[productId |-> 1, quantity |-> 3]>>)
    \/ \E s \in {"delivered", "cancelled"} : PatchOrder("c1", 1, [status |-> s])
    \/ \E c \in Clients, reference \in VerifyReferences : VerifyPayment(c, reference)

SpecVerify == Init /\ [][NextVerify]_vars

\* C29: GET /api/payments/verify/:reference is answered for any caller, with
\* or without a session; when the reference's match of order_<id>_ names an
\* existing order, that order ends paid and processing whatever its status
\* was, and no other order changes; when there is no match or no such order,
\* no order changes.
C29_VerifyNeedsNoSession ==
    [][RouteStep("GET /api/payments/verify/:reference") =>
          LET orderId == ReferenceOrderId(req'.body)
          IN  /\ resp'.status = 200 /\ resp'.handled
              /\ IF orderId # <<>> /\ orderId[1] \in DOMAIN orders
                 THEN /\ DOMAIN orders' = DOMAIN orders
                      /\ orders'[orderId[1]].paymentStatus = "paid"
                      /\ orders'[orderId[1]].status = "processing"
                      /\ \A o \in DOMAIN orders \ {orderId[1]} : orders'[o] = orders[o]
                 ELSE orders' = orders]_vars

\* a caller without a session had a payment for order 1 verified, and the
\* order is paid and processing
C29_Witness ==
    /\ req.route = "GET /api/payments/verify/:reference"
    /\ req.user = 0 /\ session[req.client] = 0
    /\ req.body = <<Text("order"), Digits(1), Digits(1700)>>
    /\ resp.status = 200
    /\ 1 \in DOMAIN orders
    /\ orders[1].paymentStatus = "paid" /\ orders[1].status = "processing"

----------------------------------------------------------------------------
(* MemStorage's products and orders maps under creates, updates and        *)
(* deletes, with patches that carry an id as a raw request body can.       *)

ProductIdPatches == {[stock |-> 7], [id |-> 3, stock |-> 7]}

OrderIdPatches == {[status |-> "shipped"], [id |-> 2, status |-> "shipped"]}

NextKeys ==
    \/ CatCreateProduct([category |-> "hoodies", supplierId |-> 2, stock |-> 7,
                         isActive |-> TRUE])
    \/ \E p \in ProductTargets, patch \in ProductIdPatches : CatUpdateProduct(p, patch)
    \/ \E p \in ProductTargets : CatDeleteProduct(p)
    \/ CallCreateOrder(3)
    \/ \E o \in OrderTargets, patch \in OrderIdPatches : CatUpdateOrder(o, patch)
    \/ \E o \in OrderTargets : CallDeleteOrderItems(o)
    \/ CallDeleteOrderRow

SpecKeys == InitMem /\ [][NextKeys]_vars

\* C30: in MemStorage every record of the products map and of the orders map
\* is stored under the key that is its own id, after any creates, updates
\* and deletes, updates whose patch carries an id included.
C30_KeyIsId ==
    /\ \A k \in DOMAIN products : products[k].id = k
    /\ \A k \in DOMAIN orders : orders[k].id = k

----------------------------------------------------------------------------
(* POST /api/register awaits three times: the username lookup, the hash,   *)
(* the insert.  Requests of other clients run between these steps.         *)

Salts == {"s1", "s2"}

\* the registrations that passed the lookup and have not inserted yet
Registering == {c \in Clients : reg[c].pc # "idle"}

RegisterCheck(c, body) ==
    /\ reg[c].pc = "idle"
    /\ counters.user + Cardinality(Registering) <= MaxUsers
    /\ req' = Request("POST /api/register", c, 0, body)
    /\ IF getUserByUsername(Store, body.username) # <<>>
       THEN /\ Respond(400, "Username already exists", <<>>)
            /\ UNCHANGED reg
       ELSE /\ reg' = [reg EXCEPT ![c] = [pc |-> "hash", body |-> body, hashed |-> <<>>]]
            /\ UNCHANGED resp
    /\ UNCHANGED <<backend, tables, session, pc, call>>

RegisterHash(c, salt) ==
    /\ reg[c].pc = "hash"
    /\ reg' = [reg EXCEPT ![c] = [pc |-> "create", body |-> reg[c].body,
                                  hashed |-> hashPassword(reg[c].body.password, salt)]]
    /\ UNCHANGED <<backend, tables, session, pc, call, req, resp>>

\* a registration that stores the supplied password as it came
RegisterCreate_Plaintext(c) ==
    /\ reg[c].pc = "create"
    /\ LET r == createUser(Store, Spread(reg[c].body, [password |-> <<reg[c].body.password>>]))
           user == r.ret
       IN  /\ SetStore(r.S)
           /\ session' = [session EXCEPT ![c] = user.id]
           /\ resp' = [route |-> "POST /api/register", client |-> c, status |-> 201,
                       message |-> "", users |-> <<Without(user, "password")>>,
                       handled |-> TRUE]
    /\ reg' = [reg EXCEPT ![c] = RegIdle]
    /\ UNCHANGED <<backend, pc, call, req>>

\* createUser, then req.login(user) and the 201 response
RegisterCreate(c) ==
    /\ reg[c].pc = "create"
    /\ LET r == createUser(Store, Spread(reg[c].body, [password |-> reg[c].hashed]))
           user == r.ret
       IN  /\ SetStore(r.S)
           /\ session' = [session EXCEPT ![c] = user.id]
           /\ resp' = [route |-> "POST /api/register", client |-> c, status |-> 201,
                       message |-> "", users |-> <<Without(user, "password")>>,
                       handled |-> TRUE]
    /\ reg' = [reg EXCEPT ![c] = RegIdle]
    /\ UNCHANGED <<backend, pc, call, req>>

RegisterBodies ==
    {[username |-> u, password |-> "pw1", role |-> "customer"] : u \in {"admin", "newuser"}}

NextAuth ==
    \/ \E c \in Clients, body \in RegisterBodies : RegisterCheck(c, body)
    \/ \E c \in Clients, salt \in Salts : RegisterHash(c, salt)
    \/ \E c \in Clients : RegisterCreate(c)
    \/ \E c \in Clients, u \in {"admin", "newuser", "ghost"}, p \in {"password123", "pw1"} :
           Login(c, u, p)
    \/ \E c \in Clients : Logout(c)
    \/ \E c \in Clients : GetUser(c)
    \/ \E c \in Clients, id \in {1, 4} : GetUsersId(c, id)
    \/ \E c \in Clients : GetAdminCustomers(c)
    \/ \E c \in Clients : GetAdminSuppliers(c)

SpecAuth == Init /\ [][NextAuth]_vars

\* C6: no response that carries a user record carries its password field.
C6_NoPasswordInResponses ==
    \A i \in DOMAIN resp.users : "password" \notin DOMAIN resp.users[i]

\* a step that takes a login request: the registration steps leave req alone
\* and every other request puts its own route in it
LoginStep == req'.route = "POST /api/login" /\ reg' = reg

\* password is the one the account was given
IsPasswordOf(password, user) ==
    \/ user.password = <<password>>
    \/ \E salt \in Salts : user.password = hashPassword(password, salt)

\* C8: a login with an unknown username and a login with a known username
\* and a wrong password get the same answer, 401 "Invalid credentials", and
\* neither establishes a session.
C8_LoginFailuresAlike ==
    [][LoginStep =>
          LET body == req'.body
              known == {k \in DOMAIN users : users[k].username = body.username}
          IN  (\A k \in known : ~IsPasswordOf(body.password, users[k])) =>
                 /\ resp' = [route |-> "POST /api/login", client |-> req'.client,
                             status |-> 401, message |-> "Invalid credentials",
                             users |-> <<>>, handled |-> TRUE]
                 /\ session' = session]_vars

\* the last answer turned down a wrong password for a known username
C8_Witness ==
    /\ req.route = "POST /api/login"
    /\ resp.route = "POST /api/login" /\ resp.client = req.client
    /\ resp.status = 401
    /\ getUserByUsername(Store, req.body.username) # <<>>
    /\ session[req.client] = 0

\* client c's registration request arrives in this step
RegisterArrives(c) ==
    /\ req'.route = "POST /api/register" /\ req'.client = c
    /\ reg[c].pc = "idle"
    /\ \A d \in Clients \ {c} : reg'[d] = reg[d]

\* client c's registration is answered 201 in this step
RegisterCompletes(c) == reg[c].pc = "create" /\ reg'[c].pc = "idle"

\* C9: a registration whose username exists is answered 400, creates no user
\* and no session; one whose username is fresh creates exactly one user,
\* with a salted hash in place of the supplied password, and its session is
\* that user's when the 201 is sent.
C9_Register ==
    [][\A c \in Clients :
          /\ RegisterArrives(c) =>
               IF \E k \in DOMAIN users : users[k].username = req'.body.username
               THEN /\ resp'.route = "POST /api/register" /\ resp'.client = c
                    /\ resp'.status = 400
                    /\ users' = users /\ session' = session /\ reg' = reg
               ELSE /\ reg'[c].pc = "hash" /\ reg'[c].body = req'.body
                    /\ users' = users /\ session' = session /\ resp' = resp
          /\ (reg[c].pc = "hash" /\ reg'[c] # reg[c]) =>
               /\ reg'[c].pc = "create" /\ reg'[c].body = reg[c].body
               /\ users' = users /\ session' = session /\ resp' = resp
          /\ RegisterCompletes(c) =>
               /\ Cardinality(DOMAIN users' \ DOMAIN users) = 1
               /\ \A k \in DOMAIN users : users'[k] = users[k]
               /\ \A k \in DOMAIN users' \ DOMAIN users :
                    /\ users'[k].username = reg[c].body.username
                    /\ users'[k].password # <<reg[c].body.password>>
                    /\ \E salt \in Salts :
                          users'[k].password = <<scrypt(reg[c].body.password, salt), salt>>
                    /\ session'[c] = k
                    /\ resp'.users = <<Without(users'[k], "password")>>
               /\ resp'.route = "POST /api/register" /\ resp'.client = c
               /\ resp'.status = 201]_vars

\* a fresh registration went through: the new user's session is on and the
\* stored password is a salted hash
C9_Witness ==
    /\ resp.route = "POST /api/register" /\ resp.status = 201
    /\ \E k \in DOMAIN users :
          /\ k >= 4
          /\ session[resp.client] = k
          /\ users[k].username = "newuser"
          /\ Len(users[k].password) = 2

\* C10: no two users have the same username, however registrations interleave.
C10_UniqueUsernames ==
    \A j, k \in DOMAIN users : users[j].username = users[k].username => j = k


====
